---- MODULE Spec2Model ----
(***************************************************************************)
(* Battleship session server: the match controller of battleship.py        *)
(* (run_multiplayer_game) and the registry / matchmaking of server.py.     *)
(*                                                                         *)
(* Text is modelled as a sequence of one-character strings, so that        *)
(* strip, upper, lower, isdigit and int are computed as Python computes    *)
(* them.  Wall-clock time is abstracted: a timed receive either returns a  *)
(* line or times out, a timed wait loop either polls again or expires.     *)
(***************************************************************************)
EXTENDS Integers, Sequences, FiniteSets, TLC

(***************************************************************************)
(* Program constants                                                       *)
(***************************************************************************)
BOARD_SIZE == 10

SHIPS == << [name |-> "Carrier",    size |-> 5],
            [name |-> "Battleship", size |-> 4],
            [name |-> "Cruiser",    size |-> 3],
            [name |-> "Submarine",  size |-> 3],
            [name |-> "Destroyer",  size |-> 2] >>

MAX_TIMEOUTS == 2

(***************************************************************************)
(* Bounds of the model                                                     *)
(***************************************************************************)
\* valid shots applied in one match (turn_count is unbounded in the code)
MaxTurns == 34
\* abandoned reader threads per player (unbounded in the code)
MaxStale == 2
\* timeouts a player may run into while placing
MaxPlaceTimeouts == 1
\* lines a waiting player may type ahead
MaxUnread == 1

(***************************************************************************)
(* Text                                                                    *)
(***************************************************************************)
UpperChars == << "A","B","C","D","E","F","G","H","I","J","K","L","M",
                 "N","O","P","Q","R","S","T","U","V","W","X","Y","Z" >>
LowerChars == << "a","b","c","d","e","f","g","h","i","j","k","l","m",
                 "n","o","p","q","r","s","t","u","v","w","x","y","z" >>
DigitChars == << "0","1","2","3","4","5","6","7","8","9" >>

IndexIn(seq, ch) == IF \E i \in 1..Len(seq) : seq[i] = ch
                    THEN CHOOSE i \in 1..Len(seq) : seq[i] = ch
                    ELSE 0

\* str.upper() and str.lower() on one character
UpperCh(ch) == IF IndexIn(LowerChars, ch) > 0 THEN UpperChars[IndexIn(LowerChars, ch)] ELSE ch
LowerCh(ch) == IF IndexIn(UpperChars, ch) > 0 THEN LowerChars[IndexIn(UpperChars, ch)] ELSE ch
Upper(s) == [i \in 1..Len(s) |-> UpperCh(s[i])]
Lower(s) == [i \in 1..Len(s) |-> LowerCh(s[i])]

IsSpace(ch) == ch \in {" ", "\t", "\n", "\r"}

\* str.strip()
RECURSIVE LStrip(_)
LStrip(s) == IF s # << >> /\ IsSpace(Head(s)) THEN LStrip(Tail(s)) ELSE s
RECURSIVE RStrip(_)
RStrip(s) == IF s # << >> /\ IsSpace(s[Len(s)]) THEN RStrip(SubSeq(s, 1, Len(s) - 1)) ELSE s
Strip(s) == RStrip(LStrip(s))

\* str.isdigit(): non-empty and every character a digit
IsDigit(s) == s # << >> /\ \A i \in 1..Len(s) : IndexIn(DigitChars, s[i]) > 0

\* int() of a string of digits
RECURSIVE ToInt(_)
ToInt(s) == IF s = << >> THEN 0
            ELSE 10 * ToInt(SubSeq(s, 1, Len(s) - 1)) + (IndexIn(DigitChars, s[Len(s)]) - 1)

QUIT == << "q","u","i","t" >>

(***************************************************************************)
(* parse_coordinate: [ok |-> TRUE, row, col] or [ok |-> FALSE] (ValueError) *)
(***************************************************************************)
ParseError == [ok |-> FALSE, row |-> -1, col |-> -1]

parse_coordinate(coord_str) ==
    LET s          == Upper(Strip(coord_str))
        row_letter == s[1]
        col_digits == Tail(s)
        row        == IndexIn(UpperChars, row_letter) - 1
        col        == ToInt(col_digits) - 1
    IN  IF ~(2 <= Len(s) /\ Len(s) <= 3) THEN ParseError
        ELSE IF ~(IndexIn(UpperChars, row_letter) >= 1
                  /\ IndexIn(UpperChars, row_letter) <= BOARD_SIZE) THEN ParseError
        ELSE IF ~IsDigit(col_digits) THEN ParseError
        ELSE IF ~(0 <= row /\ row < BOARD_SIZE /\ 0 <= col /\ col < BOARD_SIZE) THEN ParseError
        ELSE [ok |-> TRUE, row |-> row, col |-> col]

(***************************************************************************)
(* Board                                                                   *)
(***************************************************************************)
Cells == (0..(BOARD_SIZE - 1)) \X (0..(BOARD_SIZE - 1))

\* Board.__init__
NewBoard == [hidden_grid  |-> [c \in Cells |-> "."],
             display_grid |-> [c \in Cells |-> "."],
             placed_ships |-> << >>]

\* the cells a ship of ship_size at (row, col) covers; orientation 0 = H, else V
Footprint(row, col, ship_size, orientation) ==
    IF orientation = 0
    THEN {<<row, col + k>> : k \in 0..(ship_size - 1)}
    ELSE {<<row + k, col>> : k \in 0..(ship_size - 1)}

\* a check of the bounds that does not look at the cells
can_place_ship_BoundsOnly(board, row, col, ship_size, orientation) ==
    /\ 0 <= row /\ row < BOARD_SIZE /\ 0 <= col /\ col < BOARD_SIZE
    /\ IF orientation = 0 THEN col + ship_size <= BOARD_SIZE
                          ELSE row + ship_size <= BOARD_SIZE

\* a check that looks at the bounds and at the first cell only
can_place_ship_FirstCell(board, row, col, ship_size, orientation) ==
    /\ 0 <= row /\ row < BOARD_SIZE /\ 0 <= col /\ col < BOARD_SIZE
    /\ IF orientation = 0 THEN col + ship_size <= BOARD_SIZE
                          ELSE row + ship_size <= BOARD_SIZE
    /\ board.hidden_grid[<< row, col >>] = "."

can_place_ship(board, row, col, ship_size, orientation) ==
    IF orientation = 0
    THEN /\ 0 <= row /\ row < BOARD_SIZE /\ 0 <= col /\ col < BOARD_SIZE
         /\ col + ship_size <= BOARD_SIZE
         /\ \A c \in Footprint(row, col, ship_size, 0) : board.hidden_grid[c] = "."
    ELSE /\ 0 <= row /\ row < BOARD_SIZE /\ 0 <= col /\ col < BOARD_SIZE
         /\ row + ship_size <= BOARD_SIZE
         /\ \A c \in Footprint(row, col, ship_size, 1) : board.hidden_grid[c] = "."

\* do_place_ship followed by the caller's placed_ships.append
place_ship(board, ship_name, row, col, ship_size, orientation) ==
    LET occupied == Footprint(row, col, ship_size, orientation)
    IN  [board EXCEPT
           !.hidden_grid  = [c \in Cells |-> IF c \in occupied THEN "S" ELSE board.hidden_grid[c]],
           !.placed_ships = Append(board.placed_ships,
                                   [name |-> ship_name, positions |-> occupied])]

\* index of the first placed ship whose remaining positions hold the cell, 0 if none
FirstShipAt(ships, cell) ==
    IF \E i \in 1..Len(ships) : cell \in ships[i].positions
    THEN CHOOSE i \in 1..Len(ships) :
            /\ cell \in ships[i].positions
            /\ \A j \in 1..(i - 1) : cell \notin ships[j].positions
    ELSE 0

\* a check that reports the ship with every hit on it
mark_hit_and_check_sunk_Eager(ships, cell) ==
    LET i == FirstShipAt(ships, cell)
    IN  IF i = 0 THEN [ships |-> ships, sunk |-> ""]
        ELSE [ships |-> [ships EXCEPT ![i].positions = @ \ {cell}], sunk |-> ships[i].name]

\* _mark_hit_and_check_sunk: [ships, sunk] ("" stands for None)
mark_hit_and_check_sunk(ships, cell) ==
    LET i == FirstShipAt(ships, cell)
    IN  IF i = 0 THEN [ships |-> ships, sunk |-> ""]
        ELSE LET rest == ships[i].positions \ {cell}
             IN  [ships |-> [ships EXCEPT ![i].positions = rest],
                  sunk  |-> IF rest = {} THEN ships[i].name ELSE ""]

\* a shot that marks the cell again when it was shot before
fire_at_Remark(board, row, col) ==
    LET cell == <<row, col>>
        ch   == board.hidden_grid[cell]
    IN  IF ch = "S"
        THEN LET m == LET i == FirstShipAt(board.placed_ships, cell)
                      IN  IF i = 0 THEN [ships |-> board.placed_ships, sunk |-> ""]
                          ELSE [ships |-> [board.placed_ships EXCEPT
                                              ![i].positions = @ \ {cell}],
                                sunk  |-> IF board.placed_ships[i].positions \ {cell} = {}
                                          THEN board.placed_ships[i].name ELSE ""]
             IN  [result |-> "hit", sunk |-> m.sunk,
                  board  |-> [hidden_grid  |-> [board.hidden_grid EXCEPT ![cell] = "X"],
                              display_grid |-> [board.display_grid EXCEPT ![cell] = "X"],
                              placed_ships |-> m.ships]]
        ELSE IF ch = "."
        THEN [result |-> "miss", sunk |-> "",
              board  |-> [board EXCEPT !.hidden_grid[cell] = "o", !.display_grid[cell] = "o"]]
        ELSE [result |-> "already_shot", sunk |-> "",
              board  |-> [board EXCEPT !.hidden_grid[cell] = "o", !.display_grid[cell] = "o"]]

\* a shot that counts a hit cell as hit again
fire_at_Twice(board, row, col) ==
    LET cell == <<row, col>>
        ch   == board.hidden_grid[cell]
    IN  IF ch \in {"S", "X"}
        THEN LET m == mark_hit_and_check_sunk(board.placed_ships, cell)
             IN  [result |-> "hit", sunk |-> m.sunk,
                  board  |-> [hidden_grid  |-> [board.hidden_grid EXCEPT ![cell] = "X"],
                              display_grid |-> [board.display_grid EXCEPT ![cell] = "X"],
                              placed_ships |-> m.ships]]
        ELSE IF ch = "."
        THEN [result |-> "miss", sunk |-> "",
              board  |-> [board EXCEPT !.hidden_grid[cell] = "o", !.display_grid[cell] = "o"]]
        ELSE [result |-> "already_shot", sunk |-> "", board |-> board]

\* Board.fire_at: [result, sunk, board]
fire_at(board, row, col) ==
    LET cell == <<row, col>>
        ch   == board.hidden_grid[cell]
    IN  IF ch = "S"
        THEN LET m == mark_hit_and_check_sunk(board.placed_ships, cell)
             IN  [result |-> "hit", sunk |-> m.sunk,
                  board  |-> [hidden_grid  |-> [board.hidden_grid EXCEPT ![cell] = "X"],
                              display_grid |-> [board.display_grid EXCEPT ![cell] = "X"],
                              placed_ships |-> m.ships]]
        ELSE IF ch = "."
        THEN [result |-> "miss", sunk |-> "",
              board  |-> [board EXCEPT !.hidden_grid[cell] = "o", !.display_grid[cell] = "o"]]
        ELSE IF ch \in {"X", "o"}
        THEN [result |-> "already_shot", sunk |-> "", board |-> board]
        ELSE [result |-> "error", sunk |-> "", board |-> board]

\* a fleet that counts as sunk with its first ship
all_ships_sunk_Any(board) ==
    IF board.placed_ships = << >> THEN FALSE
    ELSE \E i \in 1..Len(board.placed_ships) : board.placed_ships[i].positions = {}

\* Board.all_ships_sunk
all_ships_sunk(board) ==
    IF board.placed_ships = << >> THEN FALSE
    ELSE \A i \in 1..Len(board.placed_ships) : board.placed_ships[i].positions = {}


(***************************************************************************)
(* Identities                                                              *)
(***************************************************************************)
username1 == "alice"
username2 == "bob"
Players == {username1, username2}
Ids == {"alice", "bob", "carol", "dave", "erin", "frank", "grace"}

Other(p) == IF p = username1 THEN username2 ELSE username1

VARIABLES
    \* ---- run_multiplayer_game (battleship.py) ----
    player_boards,      \* player tag -> Board
    pcP,                \* placement thread of each player: init / coord / orient / done / failed
    ship_idx,           \* index into SHIPS of the ship each placement thread is placing
    coord_str,          \* coordinate line held between the two placement prompts
    placement_status,   \* "none" / "success" / "disconnected"
    pc,                 \* main thread: idle / placing / await / reconnect_wait / ended
    turn_count,
    timeout_count,
    game_active,
    e_main_handler,     \* "" (None) or the tag named by the stored PlayerDisconnectedException
    e_critical_main,
    disc_player,        \* disconnected_player of the reconnect wait loop
    wclosed,            \* wfile.closed of each player
    stale,              \* reader threads abandoned by a timed-out recv_msg_from_player
    out,                \* lines written to each player's wfile by the latest step
    spec_out,           \* lines written to every spectator by the latest step
    \* ---- clients of the match (environment) ----
    conn,               \* transport behind rfile / wfile: up / down
    silent,             \* players that send no further line
    sweeper,            \* the player that fires at the opponent's ship cells in order
    unread,             \* lines a player typed while waiting, still unread in its rfile
    \* ---- server.py globals ----
    clients,
    players_waiting,
    spectators_waiting,
    game_in_progress,
    active_games,
    disconnected_players,
    client_ids,         \* keys of clients in insertion order (dict order)
    timers,             \* live countdown_and_remove threads per client id
    games,              \* run_game_wrapper threads, in the order they were started
    reader_live,        \* clients with a handle_client_input thread on their current socket
    zombies,            \* handle_client_input threads left on a replaced socket, per client
    main_pc,            \* accept loop: "accept", or the id whose admission it is finishing
    positions,          \* queue position last reported to each client since it queued up (0: none)
    reconnects,         \* how many reconnections main has accepted
    refused,            \* the connection main refused last: << username, reason >>
    \* ---- packet.py, the reader threads and the board on their own ----
    pkt,                \* a packet on the wire: what was sent, its bytes, and what came out
    clock,              \* time.time() in units of half an INPUT_RATE_DELAY
    reader_out,         \* what the latest step of a handle_client_input thread did with a frame
    fired,              \* the calls made on a Board by its local caller and what they returned
    \* ---- sends, the disconnect handler and the countdown threads on their own ----
    sending,            \* thread -> the client whose socket it is writing to, and the chunks left
    sock_bytes,         \* client -> the chunks written to its socket so far, each with its writer
    picked,             \* the latest disconnect handled by the match: names, message, who was blamed
    remaining           \* client -> "remaining" of each of its countdown_and_remove threads, oldest first

match_vars == << player_boards, pcP, ship_idx, coord_str, placement_status, pc, turn_count,
                 timeout_count, game_active, e_main_handler, e_critical_main, disc_player,
                 wclosed, stale, out, spec_out, conn, silent, sweeper, unread >>
server_vars == << clients, players_waiting, spectators_waiting, game_in_progress,
                  active_games, disconnected_players, client_ids, timers, games,
                  reader_live, zombies, main_pc, reconnects, positions, refused >>
net_vars == << sending, sock_bytes, picked, remaining >>
aux_vars == << pkt, clock, reader_out, fired, net_vars >>
vars == << match_vars, server_vars, aux_vars >>

(***************************************************************************)
(* Lines sent to clients: [k |-> kind, a |-> argument]                     *)
(***************************************************************************)
Msg(k)     == [k |-> k, a |-> "", view |-> ""]
MsgA(k, a) == [k |-> k, a |-> a, view |-> ""]
To(p, m)   == [to |-> p, m |-> m]

NoOut == [p \in Players |-> << >>]

\* send_msg_to_player / send_board_to_player raise PlayerDisconnectedException on
\* a broken transport: index of the first send of S that raises, 0 if none does
FirstBad(S) ==
    IF \E i \in 1..Len(S) : conn[S[i].to] = "down"
    THEN CHOOSE i \in 1..Len(S) :
            /\ conn[S[i].to] = "down"
            /\ \A j \in 1..(i - 1) : conn[S[j].to] = "up"
    ELSE 0

\* how many sends of S complete
NSent(S) == IF FirstBad(S) = 0 THEN Len(S) ELSE FirstBad(S) - 1

\* the lines of the first n sends of S that go to p
SentTo(S, n, p) ==
    LET T == SelectSeq(SubSeq(S, 1, n), LAMBDA s : s.to = p)
    IN  [i \in 1..Len(T) |-> T[i].m]

Delivered(S) == [p \in Players |-> SentTo(S, NSent(S), p)]

\* a send inside try / except PlayerDisconnectedException: pass
BestEffort(p, m) == IF conn[p] = "up" THEN << To(p, m) >> ELSE << >>


(***************************************************************************)
(* server.py.  Its functions are written as functions of the globals: G is *)
(* the record of the module-level state (and the threads started), and     *)
(* each function returns the record after the call.  A send on a socket    *)
(* that is not open raises in sendall, and send_message_to_client then     *)
(* calls remove_client, which calls update_spectator_positions and         *)
(* check_start_game: the functions are mutually recursive as in the code.  *)
(***************************************************************************)
MAX_CONNECTIONS == 6
INPUT_RATE_LIMIT_PER_SECOND == 10
\* the clock counts twentieths of a second
TicksPerSecond == 20
INPUT_RATE_DELAY == TicksPerSecond \div INPUT_RATE_LIMIT_PER_SECOND
USER_INPUT == 1

\* bounds of the server model
MaxGames == 3
MaxLobbyGames == 2
MaxPayload == 2
MaxFlips == 1
MaxClock == 2
MaxQueued == 1
MaxTimers == 2
MaxZombies == 1
MaxReconnects == 1

Globals == [clients |-> clients, client_ids |-> client_ids,
            players_waiting |-> players_waiting, spectators_waiting |-> spectators_waiting,
            game_in_progress |-> game_in_progress, active_games |-> active_games,
            disconnected_players |-> disconnected_players, timers |-> timers,
            games |-> games, reader_live |-> reader_live, zombies |-> zombies,
            positions |-> positions]

SetGlobals(G) ==
    /\ clients' = G.clients
    /\ client_ids' = G.client_ids
    /\ players_waiting' = G.players_waiting
    /\ spectators_waiting' = G.spectators_waiting
    /\ game_in_progress' = G.game_in_progress
    /\ active_games' = G.active_games
    /\ disconnected_players' = G.disconnected_players
    /\ timers' = G.timers
    /\ games' = G.games
    /\ reader_live' = G.reader_live
    /\ zombies' = G.zombies
    /\ positions' = [c \in Ids |->
                        IF IndexIn(G.players_waiting \o G.spectators_waiting, c) > 0
                        THEN G.positions[c] ELSE 0]

UNCHANGED_globals == UNCHANGED << clients, client_ids, players_waiting, spectators_waiting,
                                  game_in_progress, active_games, disconnected_players,
                                  timers, games, reader_live, zombies, positions >>
UNCHANGED_lobby == UNCHANGED << main_pc, reconnects, refused, aux_vars >>

\* lines 681-734; the countdown thread it starts is counted in timers
mark_player_disconnected(G, client_id) ==
    IF client_id \notin DOMAIN G.clients
    THEN G
    ELSE [G EXCEPT
            !.clients = [G.clients EXCEPT ![client_id].disconnected = TRUE],
            !.active_games =
                IF client_id \in DOMAIN G.active_games
                THEN [G.active_games EXCEPT ![client_id].disconnected = TRUE]
                ELSE G.active_games,
            !.disconnected_players = G.disconnected_players \cup {client_id},
            !.timers = [G.timers EXCEPT ![client_id] = @ + 1]]

\* list.remove(x): drops the first occurrence
RemoveFirst(seq, x) ==
    IF IndexIn(seq, x) = 0 THEN seq
    ELSE SubSeq(seq, 1, IndexIn(seq, x) - 1) \o SubSeq(seq, IndexIn(seq, x) + 1, Len(seq))

Without(seq, x) == SelectSeq(seq, LAMBDA y : y # x)

RECURSIVE send_message_to_client(_, _)
RECURSIVE SendEach(_, _)
RECURSIVE SendPositions(_, _)
RECURSIVE remove_client(_, _)
RECURSIVE check_start_game(_)
RECURSIVE promote_spectators_to_players(_)

\* a sequence of send_message_to_client calls, one per id of ids
SendEach(G, ids) ==
    IF ids = << >> THEN G
    ELSE SendEach(send_message_to_client(G, Head(ids)), Tail(ids))

\* lines 50-66
send_message_to_client(G, client_id) ==
    IF client_id \notin DOMAIN G.clients THEN G
    ELSE IF G.clients[client_id].socket = "open" THEN G
    ELSE remove_client(G, client_id)

\* lines 71-80
broadcast_to_all(G, sender_id) == SendEach(G, Without(G.client_ids, sender_id))

\* send_message_to_client with a line that tells client_id its queue position
send_position(G, client_id, position) ==
    IF client_id \notin DOMAIN G.clients THEN G
    ELSE IF G.clients[client_id].socket = "open"
         THEN [G EXCEPT !.positions[client_id] = position]
    ELSE remove_client(G, client_id)

\* lines 392-395: the prepared messages_to_send are sent one after the other
SendPositions(G, messages_to_send) ==
    IF messages_to_send = << >> THEN G
    ELSE SendPositions(send_position(G, Head(messages_to_send)[1], Head(messages_to_send)[2]),
                       Tail(messages_to_send))

\* lines 364-397: the positions are taken from the queue as it is when the
\* function is entered (lines 369-386), one line to every queued id in clients
update_spectator_positions(G) ==
    LET current_queue == G.players_waiting \o G.spectators_waiting
        all == [i \in DOMAIN current_queue |-> << current_queue[i], i >>]
    IN  SendPositions(G, SelectSeq(all, LAMBDA m : m[1] \in DOMAIN G.clients))

\* lines 302-361
remove_client(G, client_id) ==
    IF client_id \in DOMAIN G.active_games /\ ~G.active_games[client_id].disconnected
    THEN mark_player_disconnected(G, client_id)
    ELSE LET G1 == [G EXCEPT !.players_waiting = RemoveFirst(@, client_id),
                             !.spectators_waiting = RemoveFirst(@, client_id)]
             G2 == IF client_id \in DOMAIN G1.clients
                   THEN [G1 EXCEPT !.clients[client_id].socket = "closed"]
                   ELSE G1
         IN  check_start_game(update_spectator_positions(G2))

\* lines 444-519: [G, promoted, players_for_game]
promote_spectators_to_players(G) ==
    LET eligible == SelectSeq(G.players_waiting \o G.spectators_waiting,
                              LAMBDA c : c \in DOMAIN G.clients)
        Take(H, player_id) ==
            [H EXCEPT
               !.players_waiting = IF IndexIn(H.players_waiting, player_id) > 0
                                   THEN RemoveFirst(@, player_id) ELSE @,
               !.spectators_waiting = IF IndexIn(H.players_waiting, player_id) > 0
                                      THEN @ ELSE RemoveFirst(@, player_id),
               !.clients[player_id].role = "player",
               !.clients[player_id].has_queue = TRUE,
               !.clients[player_id].input_queue = << >>]
    IN  IF Len(eligible) >= 2
        THEN LET players_for_game == SubSeq(eligible, 1, 2)
                 G1 == Take(Take(G, players_for_game[1]), players_for_game[2])
                 G2 == send_message_to_client(
                           send_message_to_client(G1, players_for_game[1]), players_for_game[2])
             IN  [G |-> update_spectator_positions(G2), promoted |-> TRUE,
                  players_for_game |-> players_for_game]
        ELSE [G |-> G, promoted |-> FALSE, players_for_game |-> << >>]

\* lines 540-600
check_start_game(G) ==
    IF G.game_in_progress THEN G
    ELSE LET r  == promote_spectators_to_players(G)
             p1 == r.players_for_game[1]
             p2 == r.players_for_game[2]
             G1 == [r.G EXCEPT !.game_in_progress = TRUE]
             fresh(o) == [disconnected |-> FALSE, opponent |-> o]
             G2 == [G1 EXCEPT !.active_games =
                       [c \in (DOMAIN G1.active_games) \cup {p1, p2} |->
                           IF c = p2 THEN fresh(p1)
                           ELSE IF c = p1 THEN fresh(p2)
                           ELSE G1.active_games[c]]]
             G3 == broadcast_to_all(G2, "")
         IN  IF ~r.promoted THEN r.G
             ELSE IF G1.clients[p1].role # "player" \/ G1.clients[p2].role # "player"
             THEN check_start_game([G1 EXCEPT !.game_in_progress = FALSE])
             ELSE [G3 EXCEPT !.games = Append(@, [players |-> << p1, p2 >>, pc |-> "start"])]

\* lines 400-441
RecycleOne(G, player_id) ==
    IF player_id \in DOMAIN G.clients /\ G.clients[player_id].role = "player"
    THEN LET G1 == [G EXCEPT !.clients[player_id].socket = "closed"]
             G2 == send_message_to_client(G1, player_id)
         IN  [G2 EXCEPT !.clients[player_id].role = "spectator",
                        !.clients[player_id].has_queue = FALSE,
                        !.clients[player_id].input_queue = << >>,
                        !.spectators_waiting = Append(@, player_id)]
    ELSE G

recycle_players_to_spectators(G, game_player_ids) ==
    update_spectator_positions(
        RecycleOne(RecycleOne(G, game_player_ids[1]), game_player_ids[2]))

(***************************************************************************)
(* run_multiplayer_game: the lines it writes                               *)
(***************************************************************************)
GridMsg(owner, view) == [k |-> "GRID", a |-> owner, view |-> view]

\* lines 242-245: the prompt that opens each round of place_ships_for_player
PlacePrompt(p, i) ==
    << To(p, Msg("BOARD_SETUP")), To(p, GridMsg(p, "hidden")),
       To(p, MsgA("PLACE", SHIPS[i].name)), To(p, Msg("COORD_PROMPT")) >>

\* lines 400-418: the top of one iteration of the turn loop, for turn number tc
CurrentOf(tc)  == IF tc % 2 = 0 THEN username1 ELSE username2
OpponentOf(tc) == IF tc % 2 = 0 THEN username2 ELSE username1

current_player_tag  == CurrentOf(turn_count)
opponent_player_tag == OpponentOf(turn_count)

TurnTop(tc) ==
    LET c == CurrentOf(tc)
        o == OpponentOf(tc)
    IN  << To(c, Msg("PING")), To(o, Msg("PING")),
           To(c, Msg("YOUR_TURN")), To(c, Msg("VIEW_HEADER")), To(c, GridMsg(o, "display")),
           To(c, Msg("TIME_LIMIT")), To(o, MsgA("WAITING_FOR", c)),
           To(c, Msg("FIRE_PROMPT")) >>

\* the decisive lines: they tell a player how the match ended
GameOverKinds == {"GAME_OVER_WINS", "QUIT_SELF", "QUIT_OTHER", "FORFEIT_SELF",
                  "FORFEIT_WIN", "RECONNECT_FAILED_WIN"}

(***************************************************************************)
(* finally (lines 620-653): goodbye line to every open wfile, then close   *)
(***************************************************************************)
final_goodbye_msg(critical, handler, active) ==
    IF critical THEN "GOODBYE_SERVER_ERROR"
    ELSE IF handler # "" THEN "GOODBYE_DISCONNECTION"
    ELSE IF ~active THEN "GOODBYE_THANKS"
    ELSE "GOODBYE_DEFAULT"

\* pre: what the step wrote before it reached finally; critical, handler: the values
\* of e_critical_main and e_main_handler there (game_active is False on every path)
Finally(pre, critical, handler) ==
    /\ pc' = "ended"
    /\ out' = [p \in Players |->
                 IF ~wclosed[p] /\ conn[p] = "up"
                 THEN Append(pre[p], Msg(final_goodbye_msg(critical, handler, FALSE)))
                 ELSE pre[p]]
    /\ wclosed' = [p \in Players |-> TRUE]

(***************************************************************************)
(* except (line 534): the disconnect handler of the turn loop, up to its   *)
(* wait loop.  d is the tag the exception text names, pre and sp what was  *)
(* written to the players and to the spectators before the exception.      *)
(***************************************************************************)
EnterReconnect(pre, sp, d) ==
    LET r == Other(d)
    IN  /\ SetGlobals(mark_player_disconnected(Globals, d))
        /\ out' = [p \in Players |->
                     IF p = r /\ conn[r] = "up"
                     THEN Append(pre[p], MsgA("OPPONENT_DISCONNECTED", d))
                     ELSE pre[p]]
        /\ spec_out' = IF conn[r] = "up"
                       THEN Append(sp, MsgA("OPPONENT_DISCONNECTED", d)) ELSE sp
        /\ pc' = "reconnect_wait"
        /\ disc_player' = d
        /\ UNCHANGED << wclosed, e_main_handler, e_critical_main >>

\* the turn loop goes on: every send of S completed
Await(S, sp) ==
    /\ pc' = "await"
    /\ out' = Delivered(S)
    /\ spec_out' = sp
    /\ UNCHANGED << wclosed, e_main_handler, e_critical_main, disc_player >>
    /\ UNCHANGED_globals

\* sends S inside the turn loop's try: go on, or handle the disconnect
TurnSends(S, sp) ==
    IF FirstBad(S) = 0
    THEN Await(S, sp)
    ELSE EnterReconnect(Delivered(S), sp, S[FirstBad(S)].to)


(***************************************************************************)
(* What the two clients type (environment).  Placement follows the test    *)
(* clients p1.py / p2.py: ship i goes to row i, column 1, horizontally.    *)
(* For the first ship the client may also type an out-of-bounds start, an  *)
(* unparsable coordinate or quit, for the second an occupied cell.         *)
(***************************************************************************)
PlaceCoordMenu(i) ==
    { << LowerChars[i], "1" >> }
    \cup (IF i = 1 THEN { << "A", "1", "0" >>, << "a" >>, << "Q", "u", "i", "t" >> }
          ELSE IF i = 2 THEN { << "a", "1" >> }
          ELSE {})

OrientMenu == { << "h" >>, << "x" >>, QUIT }

\* external form of a cell: row letter and column number 1..10
Render(cell) ==
    << UpperChars[cell[1] + 1] >> \o
    (IF cell[2] + 1 = 10 THEN << "1", "0" >> ELSE << DigitChars[cell[2] + 2] >>)

ShipCells(board) == {c \in Cells : board.hidden_grid[c] = "S"}

\* first unhit ship cell in row-major order
NextTarget(board) ==
    CHOOSE c \in ShipCells(board) :
        \A d \in ShipCells(board) :
            c[1] < d[1] \/ (c[1] = d[1] /\ c[2] <= d[2])

Untouched(board) == \A c \in Cells : board.display_grid[c] = "."

\* the sweeper fires at the opponent's next unhit ship cell, or opens with J10; the
\* other player fires at A1 or J10; both may type junk, an off-board cell, or quit
ShotMenu(p) ==
    (IF p = sweeper /\ ShipCells(player_boards[Other(p)]) # {}
     THEN { Render(NextTarget(player_boards[Other(p)])) }
          \cup (IF Untouched(player_boards[Other(p)]) THEN { << "j", "1", "0" >> } ELSE {})
     ELSE { << "A", "1" >>, << "J", "1", "0" >> })
    \cup { << "Z", "Z" >>, << "A", "1", "1" >>, << "K", "1" >>, << " ", "a", "0" >>,
           << "Q", "U", "I", "T" >> }

(***************************************************************************)
(* Placement phase: place_ships_for_player run by placement_worker, one    *)
(* thread per player (lines 237-281, 342-370)                              *)
(***************************************************************************)
UNCHANGED_turn == UNCHANGED << pc, turn_count, timeout_count, game_active, e_critical_main,
                               disc_player, wclosed, spec_out >>
UNCHANGED_env == UNCHANGED << conn, silent, sweeper, unread >>

\* placement_worker's except clauses: the status is the exception, which is
\* also stored in e_main_handler
PlaceFail(p) ==
    /\ pcP' = [pcP EXCEPT ![p] = "failed"]
    /\ placement_status' = [placement_status EXCEPT ![p] = "disconnected"]
    /\ e_main_handler' = p
    /\ out' = [NoOut EXCEPT ![p] = << >>]

\* the thread starts: welcome line and the first prompt
PlaceBegin(p) ==
    /\ pc = "placing"
    /\ pcP[p] = "init"
    /\ IF conn[p] = "down"
       THEN /\ PlaceFail(p)
            /\ UNCHANGED << ship_idx >>
       ELSE /\ pcP' = [pcP EXCEPT ![p] = "coord"]
            /\ ship_idx' = [ship_idx EXCEPT ![p] = 1]
            /\ out' = [NoOut EXCEPT ![p] =
                          Delivered(<< To(p, Msg("WELCOME")) >> \o PlacePrompt(p, 1))[p]]
            /\ UNCHANGED << placement_status, e_main_handler >>
    /\ UNCHANGED << player_boards, coord_str, stale >>
    /\ UNCHANGED_turn /\ UNCHANGED_env /\ UNCHANGED << server_vars, aux_vars >>

\* recv_msg_from_player returns the coordinate line (line 248)
PlaceRecvCoord(p, line) ==
    /\ pc = "placing"
    /\ pcP[p] = "coord"
    /\ conn[p] = "up" /\ stale[p] = 0 /\ p \notin silent
    /\ LET data == Strip(line)
       IN  IF Lower(data) = QUIT
           THEN /\ PlaceFail(p)
                /\ UNCHANGED coord_str
           ELSE /\ coord_str' = [coord_str EXCEPT ![p] = data]
                /\ pcP' = [pcP EXCEPT ![p] = "orient"]
                /\ out' = [NoOut EXCEPT ![p] = << Msg("ORIENT_PROMPT") >>]
                /\ UNCHANGED << placement_status, e_main_handler >>
    /\ UNCHANGED << player_boards, ship_idx, stale >>
    /\ UNCHANGED_turn /\ UNCHANGED_env /\ UNCHANGED << server_vars, aux_vars >>

\* recv_msg_from_player returns the orientation line (line 253); validation and
\* placement (lines 254-277); then the next prompt, or the closing lines 279-281
PlaceRecvOrient(p, line) ==
    /\ pc = "placing"
    /\ pcP[p] = "orient"
    /\ conn[p] = "up" /\ stale[p] = 0 /\ p \notin silent
    /\ LET orient_str == Upper(Strip(line))
           i          == ship_idx[p]
           board      == player_boards[p]
           rc         == parse_coordinate(coord_str[p])
           orientation_val == IF orient_str = << "H" >> THEN 0
                              ELSE IF orient_str = << "V" >> THEN 1 ELSE -1
           Again(m)   == /\ out' = [NoOut EXCEPT ![p] =
                                       Delivered(<< To(p, Msg(m)) >> \o PlacePrompt(p, i))[p]]
                         /\ pcP' = [pcP EXCEPT ![p] = "coord"]
                         /\ UNCHANGED << player_boards, ship_idx, placement_status,
                                         e_main_handler >>
       IN  IF Lower(orient_str) = QUIT
           THEN /\ PlaceFail(p)
                /\ UNCHANGED << player_boards, ship_idx >>
           ELSE IF ~rc.ok THEN Again("INVALID_INPUT")
           ELSE IF orientation_val = -1 THEN Again("INVALID_ORIENTATION")
           ELSE IF ~can_place_ship(board, rc.row, rc.col, SHIPS[i].size, orientation_val)
                THEN Again("CANNOT_PLACE")
           ELSE /\ player_boards' = [player_boards EXCEPT ![p] =
                        place_ship(board, SHIPS[i].name, rc.row, rc.col, SHIPS[i].size,
                                   orientation_val)]
                /\ UNCHANGED e_main_handler
                /\ IF i < Len(SHIPS)
                   THEN /\ ship_idx' = [ship_idx EXCEPT ![p] = i + 1]
                        /\ pcP' = [pcP EXCEPT ![p] = "coord"]
                        /\ out' = [NoOut EXCEPT ![p] =
                               Delivered(<< To(p, MsgA("PLACED", SHIPS[i].name)) >>
                                         \o PlacePrompt(p, i + 1))[p]]
                        /\ UNCHANGED placement_status
                   ELSE /\ pcP' = [pcP EXCEPT ![p] = "done"]
                        /\ placement_status' = [placement_status EXCEPT ![p] = "success"]
                        /\ out' = [NoOut EXCEPT ![p] =
                               << MsgA("PLACED", SHIPS[i].name), Msg("ALL_PLACED"),
                                  GridMsg(p, "hidden"), Msg("WAITING_OTHER_PLACEMENT") >>]
                        /\ UNCHANGED ship_idx
    /\ coord_str' = [coord_str EXCEPT ![p] = << >>]   \* not read again before line 248
    /\ UNCHANGED stale
    /\ UNCHANGED_turn /\ UNCHANGED_env /\ UNCHANGED << server_vars, aux_vars >>

\* recv_msg_from_player raises PlayerTimeoutException at either prompt; the
\* handler of lines 272-275 writes a notice and the loop prompts again.  The
\* reader thread of the timed-out receive stays blocked in readline.
PlaceTimeout(p) ==
    /\ pc = "placing"
    /\ pcP[p] \in {"coord", "orient"}
    /\ conn[p] = "up"
    /\ stale[p] < MaxPlaceTimeouts
    /\ stale' = [stale EXCEPT ![p] = @ + 1]
    /\ pcP' = [pcP EXCEPT ![p] = "coord"]
    /\ out' = [NoOut EXCEPT ![p] =
                  Delivered(<< To(p, Msg("PLACEMENT_INACTIVE")) >>
                            \o PlacePrompt(p, ship_idx[p]))[p]]
    /\ coord_str' = [coord_str EXCEPT ![p] = << >>]
    /\ UNCHANGED << player_boards, ship_idx, placement_status, e_main_handler >>
    /\ UNCHANGED_turn /\ UNCHANGED_env /\ UNCHANGED << server_vars, aux_vars >>

\* readline returns '' (EOF): PlayerDisconnectedException out of the thread
PlaceEOF(p) ==
    /\ pc = "placing"
    /\ pcP[p] \in {"coord", "orient"}
    /\ conn[p] = "down"
    /\ PlaceFail(p)
    /\ UNCHANGED << player_boards, ship_idx, coord_str, stale >>
    /\ UNCHANGED_turn /\ UNCHANGED_env /\ UNCHANGED << server_vars, aux_vars >>


(***************************************************************************)
(* Main thread of run_multiplayer_game                                     *)
(***************************************************************************)
UNCHANGED_placement == UNCHANGED << pcP, ship_idx, coord_str, placement_status >>

\* first player, in the order [username1, username2], whose status is an exception
FirstFailed == IF placement_status[username1] = "disconnected" THEN username1 ELSE username2

\* a check that looks at the first player only
PlacementOk_First == placement_status[username1] = "success"

\* lines 373-378: the status of each player is "success"
PlacementOk == \A p \in Players : placement_status[p] = "success"

\* both placement threads joined (lines 369-384), then the first loop top
PlacementJoin ==
    /\ pc = "placing"
    /\ \A p \in Players : pcP[p] \in {"done", "failed"}
    /\ IF ~PlacementOk
       THEN \* raise status -> except PlayerDisconnectedException (line 605) -> finally
            /\ e_main_handler' = FirstFailed
            /\ game_active' = FALSE
            /\ Finally(NoOut, e_critical_main, FirstFailed)
            /\ spec_out' = << >>
            /\ UNCHANGED << disc_player, e_critical_main >>
            /\ UNCHANGED_globals
       ELSE LET B == << To(username1, Msg("BATTLE_BEGINS")), To(username2, Msg("BATTLE_BEGINS")) >>
            IN  IF FirstBad(B) # 0
                THEN /\ e_main_handler' = B[FirstBad(B)].to
                     /\ game_active' = FALSE
                     /\ Finally(Delivered(B), e_critical_main, B[FirstBad(B)].to)
                     /\ spec_out' = << >>
                     /\ UNCHANGED << disc_player, e_critical_main >>
                     /\ UNCHANGED_globals
                ELSE /\ TurnSends(B \o TurnTop(0), << Msg("BOARDS"), Msg("GAME_STARTED") >>)
                     /\ UNCHANGED game_active
    /\ UNCHANGED << player_boards, turn_count, timeout_count, stale >>
    /\ UNCHANGED_placement /\ UNCHANGED_env /\ UNCHANGED_lobby


\* an error line that goes to both players
InvalidMoveSends_Both(cur, tc) ==
    << To(cur, Msg("INVALID_MOVE")), To(Other(cur), Msg("INVALID_MOVE")) >> \o TurnTop(tc)

\* except ValueError (lines 529-532): the error line, then continue: the loop top
\* of the same turn
InvalidMoveSends(cur, tc) == << To(cur, Msg("INVALID_MOVE")) >> \o TurnTop(tc)

\* lines 419-486: recv_msg_from_player returns a line of the current player
TurnRecv(line) ==
    /\ pc = "await"
    /\ LET cur   == current_player_tag
           opp   == opponent_player_tag
           guess_input == Strip(line)
           rc    == parse_coordinate(guess_input)
           shot  == fire_at(player_boards[opp], rc.row, rc.col)
           sunk  == all_ships_sunk(shot.board)
           event == IF shot.result = "hit"
                    THEN (IF shot.sunk # "" THEN MsgA("SPEC_SUNK", shot.sunk) ELSE Msg("SPEC_HIT"))
                    ELSE IF shot.result = "miss" THEN Msg("SPEC_MISS")
                    ELSE Msg("SPEC_ALREADY_SHOT")
           F     == << To(cur, [k |-> "YOU_FIRED", a |-> shot.result, view |-> shot.sunk]),
                       To(opp, [k |-> "OPPONENT_FIRED", a |-> shot.result, view |-> shot.sunk]),
                       To(opp, Msg("BOARD_AFTER_SHOT")), To(opp, GridMsg(opp, "hidden")) >>
           W     == << To(cur, MsgA("GAME_OVER_WINS", cur)), To(cur, Msg("FINAL_HEADER")),
                       To(cur, GridMsg(opp, "display")),
                       To(opp, MsgA("GAME_OVER_WINS", cur)), To(opp, Msg("FINAL_HEADER")),
                       To(opp, GridMsg(opp, "hidden")) >>
       IN  /\ conn[cur] = "up" /\ stale[cur] = 0
           /\ IF unread[cur] # << >>
              THEN /\ line = Head(unread[cur])
                   /\ unread' = [unread EXCEPT ![cur] = Tail(@)]
              ELSE /\ cur \notin silent
                   /\ line \in ShotMenu(cur)
                   /\ UNCHANGED unread
           /\ timeout_count' = [timeout_count EXCEPT ![cur] = 0]
           /\ IF Lower(guess_input) = QUIT
              THEN \* lines 423-439, then finally
                   /\ game_active' = FALSE
                   /\ Finally(Delivered(<< To(cur, Msg("QUIT_SELF")) >>
                                        \o BestEffort(opp, MsgA("QUIT_OTHER", cur))), e_critical_main, e_main_handler)
                   /\ spec_out' = << >>
                   /\ UNCHANGED << player_boards, turn_count, e_main_handler, e_critical_main,
                                   disc_player >>
                   /\ UNCHANGED_globals
              ELSE IF ~rc.ok
              THEN \* except ValueError (lines 529-532): continue
                   /\ TurnSends(InvalidMoveSends(cur, turn_count), << >>)
                   /\ UNCHANGED << player_boards, turn_count, game_active >>
              ELSE /\ turn_count < MaxTurns
                   /\ player_boards' = [player_boards EXCEPT ![opp] = shot.board]
                   /\ IF sunk
                      THEN \* lines 474-484: break, then finally
                           /\ game_active' = (FirstBad(F) # 0 /\ game_active)
                           /\ UNCHANGED turn_count
                           /\ IF FirstBad(F \o W) = 0
                              THEN /\ Finally(Delivered(F \o W), e_critical_main, e_main_handler)
                                   /\ spec_out' = << Msg("BOARDS"), event >>
                                   /\ UNCHANGED << e_main_handler, e_critical_main, disc_player >>
                                   /\ UNCHANGED_globals
                              ELSE EnterReconnect(Delivered(F \o W), << Msg("BOARDS"), event >>,
                                                  (F \o W)[FirstBad(F \o W)].to)
                      ELSE \* line 486 and the next loop top
                           /\ turn_count' = IF FirstBad(F) = 0 THEN turn_count + 1 ELSE turn_count
                           /\ TurnSends(F \o TurnTop(turn_count + 1), << Msg("BOARDS"), event >>)
                           /\ UNCHANGED game_active
    /\ UNCHANGED << stale, conn, silent, sweeper >>
    /\ UNCHANGED_placement /\ UNCHANGED_lobby

\* a forfeit that comes one strike late
Forfeits_Late(n) == n > MAX_TIMEOUTS

\* line 493: the strike that forfeits
Forfeits(n) == n >= MAX_TIMEOUTS

\* except PlayerTimeoutException (lines 488-527): the receive of the current
\* player timed out; its reader thread stays blocked in readline
TurnTimeout ==
    /\ pc = "await"
    /\ LET cur == current_player_tag
           opp == opponent_player_tag
           n   == timeout_count[cur] + 1
           N   == << To(cur, MsgA("TURN_SKIPPED_SELF", DigitChars[n + 1])),
                    To(opp, MsgA("TURN_SKIPPED_OTHER", DigitChars[n + 1])) >>
       IN  /\ conn[cur] = "up"
           /\ unread[cur] = << >>
           /\ stale[cur] < MaxStale
           /\ stale' = [stale EXCEPT ![cur] = @ + 1]
           /\ timeout_count' = [timeout_count EXCEPT ![cur] = n]
           /\ IF Forfeits(n)
              THEN \* forfeit: both sends best effort, break, finally
                   /\ game_active' = FALSE
                   /\ Finally(Delivered(BestEffort(cur, Msg("FORFEIT_SELF"))
                                        \o BestEffort(opp, MsgA("FORFEIT_WIN", cur))), e_critical_main, e_main_handler)
                   /\ UNCHANGED << e_main_handler, e_critical_main, disc_player >>
                   /\ UNCHANGED_globals
              ELSE IF FirstBad(N) # 0
              THEN \* raised inside the except clause: caught by line 605, then finally
                   /\ e_main_handler' = N[FirstBad(N)].to
                   /\ game_active' = FALSE
                   /\ Finally(Delivered(N), e_critical_main, N[FirstBad(N)].to)
                   /\ UNCHANGED << e_critical_main, disc_player >>
                   /\ UNCHANGED_globals
              ELSE \* the loop runs again with turn_count as it was
                   /\ TurnSends(N \o TurnTop(turn_count), << >>)
                   /\ UNCHANGED game_active
           /\ IF Forfeits(n) \/ FirstBad(N) # 0 THEN spec_out' = << >> ELSE TRUE
    /\ UNCHANGED << player_boards, turn_count >>
    /\ UNCHANGED_placement /\ UNCHANGED_env /\ UNCHANGED_lobby

\* readline of the current player returns '' (EOF): except of line 534
TurnEOF ==
    /\ pc = "await"
    /\ conn[current_player_tag] = "down"
    /\ EnterReconnect(NoOut, << >>, current_player_tag)
    /\ UNCHANGED << player_boards, turn_count, timeout_count, game_active, stale >>
    /\ UNCHANGED_placement /\ UNCHANGED_env /\ UNCHANGED_lobby

\* lines 569-585: the wait loop sees active_games[disconnected_player] no longer
\* disconnected; the entry holds no "rfile" (server.py lines 571-582), so line 578
\* raises KeyError: except Exception (line 610), then finally
ReconnectSeen ==
    /\ pc = "reconnect_wait"
    /\ disc_player \in DOMAIN active_games
    /\ ~active_games[disc_player].disconnected
    /\ LET r == Other(disc_player)
           S == BestEffort(r, MsgA("OPPONENT_RECONNECTED", disc_player))
                \o BestEffort(username1, Msg("CRITICAL_ERROR"))
                \o BestEffort(username2, Msg("CRITICAL_ERROR"))
       IN  /\ e_critical_main' = TRUE
           /\ game_active' = FALSE
           /\ Finally(Delivered(S), TRUE, e_main_handler)
           /\ spec_out' = IF conn[r] = "up" THEN << MsgA("OPPONENT_RECONNECTED", disc_player) >>
                          ELSE << >>
    /\ UNCHANGED << player_boards, turn_count, timeout_count, e_main_handler, disc_player, stale >>
    /\ UNCHANGED_placement /\ UNCHANGED_env /\ UNCHANGED_lobby /\ UNCHANGED_globals

\* lines 593-601: reconnect_deadline passed without a reconnect being seen
ReconnectExpire ==
    /\ pc = "reconnect_wait"
    /\ LET r == Other(disc_player)
       IN  /\ e_main_handler' = disc_player
           /\ game_active' = FALSE
           /\ Finally(Delivered(BestEffort(r, Msg("RECONNECT_FAILED_WIN"))), e_critical_main, disc_player)
           /\ spec_out' = IF conn[r] = "up" THEN << Msg("RECONNECT_FAILED") >> ELSE << >>
    /\ UNCHANGED << player_boards, turn_count, timeout_count, e_critical_main, disc_player, stale >>
    /\ UNCHANGED_placement /\ UNCHANGED_env /\ UNCHANGED_lobby /\ UNCHANGED_globals

(***************************************************************************)
(* Environment of the match                                                *)
(***************************************************************************)
MatchRunning == pc \in {"placing", "await", "reconnect_wait"}

\* the transport of p breaks; readers blocked on it return EOF
Disconnect(p) ==
    /\ MatchRunning
    /\ conn[p] = "up"
    /\ conn' = [conn EXCEPT ![p] = "down"]
    /\ stale' = [stale EXCEPT ![p] = 0]
    /\ unread' = [unread EXCEPT ![p] = << >>]
    /\ UNCHANGED << player_boards, pcP, ship_idx, coord_str, placement_status, pc, turn_count,
                    timeout_count, game_active, e_main_handler, e_critical_main, disc_player,
                    wclosed, out, spec_out, silent, sweeper >>
    /\ UNCHANGED << server_vars, aux_vars >>

\* p types a line that an abandoned reader thread of p takes: nothing reads its result
StaleEat(p) ==
    /\ MatchRunning
    /\ conn[p] = "up" /\ p \notin silent
    /\ stale[p] > 0
    /\ stale' = [stale EXCEPT ![p] = @ - 1]
    /\ UNCHANGED << player_boards, pcP, ship_idx, coord_str, placement_status, pc, turn_count,
                    timeout_count, game_active, e_main_handler, e_critical_main, disc_player,
                    wclosed, out, spec_out, conn, silent, sweeper, unread >>
    /\ UNCHANGED << server_vars, aux_vars >>

\* p stops typing for good
GoSilent(p) ==
    /\ pc = "await"
    /\ silent = {}
    /\ silent' = silent \cup {p}
    /\ UNCHANGED << player_boards, pcP, ship_idx, coord_str, placement_status, pc, turn_count,
                    timeout_count, game_active, e_main_handler, e_critical_main, disc_player,
                    wclosed, out, spec_out, conn, stale, sweeper, unread >>
    /\ UNCHANGED << server_vars, aux_vars >>

\* what a player types while it waits for the opponent's move
TypeAheadMenu == { << "q", "u", "i", "t" >> }

\* p, waiting for the opponent's move, types a line: it stays in p's rfile until
\* recv_msg_from_player(p) is called (line 419 reads the current player only)
TypeAhead(p, line) ==
    /\ pc = "await"
    /\ p = opponent_player_tag
    /\ conn[p] = "up" /\ p \notin silent /\ stale[p] = 0
    /\ Len(unread[p]) < MaxUnread
    /\ unread' = [unread EXCEPT ![p] = Append(@, line)]
    /\ UNCHANGED << player_boards, pcP, ship_idx, coord_str, placement_status, pc, turn_count,
                    timeout_count, game_active, e_main_handler, e_critical_main, disc_player,
                    wclosed, out, spec_out, conn, stale, silent, sweeper >>
    /\ UNCHANGED << server_vars, aux_vars >>

(***************************************************************************)
(* server.py: the threads.  main is the accept loop; every admitted client *)
(* has a handle_client_input thread; check_start_game starts one           *)
(* run_game_wrapper thread per match; mark_player_disconnected starts one  *)
(* countdown_and_remove thread.  A step is what a thread does between two  *)
(* points where it sleeps or blocks.                                       *)
(***************************************************************************)
UNCHANGED_match == UNCHANGED match_vars

\* the step taken by a thread, within the bounds of the model
ServerStep(G) ==
    /\ Len(G.games) <= MaxGames
    /\ \A c \in Ids : G.timers[c] <= MaxTimers /\ G.zombies[c] <= MaxZombies
    /\ SetGlobals(G)
    /\ UNCHANGED_match

NewClient(role) == [socket |-> "open", role |-> role, has_queue |-> FALSE,
                    input_queue |-> << >>, disconnected |-> FALSE,
                    last_input_time |-> clock]

Reconnecting(c) ==
    /\ c \in disconnected_players
    /\ c \in DOMAIN active_games
    /\ active_games[c].disconnected

\* main, lines 774-854: a known player is back before reconnect_deadline
MainReconnect(c) ==
    /\ main_pc = "accept"
    /\ Reconnecting(c)
    /\ LET G1 == [Globals EXCEPT
                    !.active_games[c].disconnected = FALSE,
                    !.disconnected_players = @ \ {c},
                    !.clients[c].socket = "open",
                    !.zombies[c] = IF c \in reader_live THEN @ + 1 ELSE @,
                    !.reader_live = @ \cup {c}]
           opponent_id == active_games[c].opponent
           G2 == IF opponent_id \in DOMAIN G1.active_games
                 THEN send_message_to_client(G1, opponent_id) ELSE G1
       IN  ServerStep(send_message_to_client(send_message_to_client(G2, c), c))
    /\ reconnects < MaxReconnects
    /\ reconnects' = reconnects + 1
    /\ UNCHANGED << main_pc, refused, aux_vars >>

\* a late connection that is taken back all the same
MainReconnectLate_Resumes(c) ==
    /\ main_pc = "accept"
    /\ Reconnecting(c)
    /\ ServerStep([Globals EXCEPT !.active_games[c].disconnected = FALSE,
                                  !.disconnected_players = @ \ {c}])
    /\ UNCHANGED_lobby

\* main, lines 855-862: the same after reconnect_deadline
MainReconnectLate(c) ==
    /\ main_pc = "accept"
    /\ Reconnecting(c)
    /\ ServerStep(send_message_to_client(Globals, c))
    /\ UNCHANGED_lobby

\* what a client may send as its username, besides an id
BlankNames == { << >>, << " " >> }

\* main, lines 768-772, and get_client_username, lines 100-103: the stripped
\* username is empty, the connection is closed and the loop continues
MainRefuseEmpty(raw) ==
    /\ main_pc = "accept"
    /\ Strip(raw) = << >>
    /\ refused' = << "", "empty" >>
    /\ UNCHANGED << main_pc, reconnects, aux_vars >>
    /\ UNCHANGED_globals
    /\ UNCHANGED_match

\* main, lines 864-877: len(clients) >= MAX_CONNECTIONS, refusal and close
MainRefuseFull(c) ==
    /\ main_pc = "accept"
    /\ ~Reconnecting(c)
    /\ Len(client_ids) >= MAX_CONNECTIONS
    /\ refused' = << c, "full" >>
    /\ UNCHANGED << main_pc, reconnects, aux_vars >>
    /\ UNCHANGED_globals
    /\ UNCHANGED_match

\* main, lines 879-890: username in clients, refusal and close
MainRefuseDuplicate(c) ==
    /\ main_pc = "accept"
    /\ ~Reconnecting(c)
    /\ Len(client_ids) < MAX_CONNECTIONS
    /\ c \in DOMAIN clients
    /\ refused' = << c, "duplicate" >>
    /\ UNCHANGED << main_pc, reconnects, aux_vars >>
    /\ UNCHANGED_globals
    /\ UNCHANGED_match

\* main registering without the connection limit checks of lines 866 and 895
MainRegister_NoLimit(c) ==
    /\ main_pc = "accept"
    /\ ~Reconnecting(c)
    /\ c \notin DOMAIN clients
    /\ LET role == IF Len(players_waiting) < 2 /\ ~game_in_progress
                   THEN "player" ELSE "spectator"
       IN  ServerStep([Globals EXCEPT
               !.players_waiting = IF role = "player" THEN Append(@, c) ELSE @,
               !.spectators_waiting = IF role = "player" THEN @ ELSE Append(@, c),
               !.clients = [d \in (DOMAIN clients) \cup {c} |->
                               IF d = c THEN NewClient(role) ELSE clients[d]],
               !.client_ids = Append(@, c),
               !.reader_live = @ \cup {c}])
    /\ main_pc' = c
    /\ UNCHANGED << reconnects, refused, aux_vars >>

\* main, lines 865-937: a new username is registered and its reader started
MainRegister(c) ==
    /\ main_pc = "accept"
    /\ ~Reconnecting(c)
    /\ Len(client_ids) < MAX_CONNECTIONS
    /\ c \notin DOMAIN clients
    /\ LET role == IF Len(players_waiting) < 2 /\ ~game_in_progress
                   THEN "player" ELSE "spectator"
       IN  ServerStep([Globals EXCEPT
               !.players_waiting = IF role = "player" THEN Append(@, c) ELSE @,
               !.spectators_waiting = IF role = "player" THEN @ ELSE Append(@, c),
               !.clients = [d \in (DOMAIN clients) \cup {c} |->
                               IF d = c THEN NewClient(role) ELSE clients[d]],
               !.client_ids = Append(@, c),
               !.reader_live = @ \cup {c}])
    /\ main_pc' = c
    /\ UNCHANGED << reconnects, refused, aux_vars >>

\* the welcome lines without the check_start_game of line 969
MainWelcome_NoCheck ==
    /\ main_pc # "accept"
    /\ LET position == IndexIn(players_waiting \o spectators_waiting, main_pc)
           G1 == IF position > 0 THEN send_position(Globals, main_pc, position)
                 ELSE send_message_to_client(Globals, main_pc)
       IN  ServerStep(send_message_to_client(G1, main_pc))
    /\ main_pc' = "accept"
    /\ UNCHANGED << reconnects, refused, aux_vars >>

\* main, lines 940-969: the welcome lines, then check_start_game
MainWelcome ==
    /\ main_pc # "accept"
    /\ LET position == IndexIn(players_waiting \o spectators_waiting, main_pc)
           G1 == IF position > 0 THEN send_position(Globals, main_pc, position)
                 ELSE send_message_to_client(Globals, main_pc)
       IN  ServerStep(check_start_game(send_message_to_client(G1, main_pc)))
    /\ main_pc' = "accept"
    /\ UNCHANGED << reconnects, refused, aux_vars >>

\* the peer of c closes or loses its connection
ClientDrop(c) ==
    /\ c \in DOMAIN clients
    /\ clients[c].socket = "open"
    /\ ServerStep([Globals EXCEPT !.clients[c].socket = "broken"])
    /\ UNCHANGED_lobby

\* handle_client_input and handle_command, lines 163-175: a waiting spectator
\* sends /status and is told its position in the combined queue
StatusCommand(c) ==
    /\ c \in reader_live
    /\ clients[c].socket = "open"
    /\ clients[c].role = "spectator"
    /\ IndexIn(players_waiting \o spectators_waiting, c) > 0
    /\ ServerStep(send_position(Globals, c, IndexIn(players_waiting \o spectators_waiting, c)))
    /\ UNCHANGED_lobby

\* handle_client_input, lines 295-299: receive_packet fails, finally remove_client
ReaderExit(c) ==
    /\ c \in reader_live
    /\ clients[c].socket # "open"
    /\ ServerStep(remove_client([Globals EXCEPT !.reader_live = @ \ {c}], c))
    /\ UNCHANGED_lobby

\* the same for a reader left on a socket that main replaced and closed
ZombieExit(c) ==
    /\ zombies[c] > 0
    /\ ServerStep(remove_client([Globals EXCEPT !.zombies[c] = @ - 1], c))
    /\ UNCHANGED_lobby

SetGamePc(G, g, to) == [G EXCEPT !.games[g].pc = to]

\* run_game_wrapper, lines 608-666: roles, countdown, the call of
\* run_multiplayer_game with six arguments for nine parameters (TypeError),
\* the broadcast of except Exception, and the first statement of finally
WrapperRun(g) ==
    /\ g \in DOMAIN games
    /\ games[g].pc = "start"
    /\ LET p1 == games[g].players[1]
           p2 == games[g].players[2]
           G1 == [Globals EXCEPT !.clients[p1].role = "player", !.clients[p2].role = "player"]
           G2 == broadcast_to_all(broadcast_to_all(G1, ""), "")
       IN  ServerStep(SetGamePc([G2 EXCEPT !.game_in_progress = FALSE], g, "sleep"))
    /\ UNCHANGED_lobby

\* run_game_wrapper, lines 632-666: run_multiplayer_game has returned (it catches
\* every exception itself); the first statement of finally
WrapperReturn(g) ==
    /\ g \in DOMAIN games
    /\ games[g].pc = "match"
    /\ pc = "ended"
    /\ ServerStep(SetGamePc([Globals EXCEPT !.game_in_progress = FALSE], g, "sleep"))
    /\ UNCHANGED_lobby

\* run_game_wrapper, lines 669-672: after time.sleep(1)
WrapperRecycle(g) ==
    /\ g \in DOMAIN games
    /\ games[g].pc = "sleep"
    /\ ServerStep(SetGamePc(recycle_players_to_spectators(Globals, games[g].players), g, "next"))
    /\ UNCHANGED_lobby

\* run_game_wrapper, lines 674-678
WrapperNext(g) ==
    /\ g \in DOMAIN games
    /\ games[g].pc = "next"
    /\ ServerStep(SetGamePc(check_start_game(broadcast_to_all(Globals, "")), g, "done"))
    /\ UNCHANGED_lobby

TimerRunning(c) ==
    /\ timers[c] > 0
    /\ c \in disconnected_players
    /\ c \in DOMAIN active_games /\ active_games[c].disconnected

\* countdown_and_remove, lines 710-712: the player is back, the thread returns
TimerStop(c) ==
    /\ timers[c] > 0
    /\ ~TimerRunning(c)
    /\ ServerStep([Globals EXCEPT !.timers[c] = @ - 1])
    /\ UNCHANGED_lobby

\* countdown_and_remove, lines 713-723: one second of the countdown
TimerTick(c) ==
    /\ TimerRunning(c)
    /\ LET G1 == send_message_to_client(Globals, c)
           opponent_id == active_games[c].opponent
       IN  ServerStep(IF opponent_id \in DOMAIN clients
                      THEN send_message_to_client(G1, opponent_id) ELSE G1)
    /\ UNCHANGED_lobby

\* countdown_and_remove, lines 724-727: RECONNECT_TIMEOUT seconds have passed
TimerExpire(c) ==
    /\ timers[c] > 0
    /\ LET G1 == remove_client(broadcast_to_all(Globals, ""), c)
       IN  ServerStep([G1 EXCEPT !.disconnected_players = @ \ {c},
                                 !.timers[c] = @ - 1])
    /\ UNCHANGED_lobby

(***************************************************************************)
(* Specifications                                                          *)
(***************************************************************************)
NoGlobals == [clients |-> << >>, client_ids |-> << >>,
              players_waiting |-> << >>, spectators_waiting |-> << >>,
              game_in_progress |-> FALSE, active_games |-> << >>,
              disconnected_players |-> {}, timers |-> [c \in Ids |-> 0],
              games |-> << >>, reader_live |-> {}, zombies |-> [c \in Ids |-> 0],
              positions |-> [c \in Ids |-> 0]]

\* the threads that send to clients (server.py: accept loop, a reader thread, a
\* countdown thread; battleship.py: the match thread) and the clients they send to
Senders == {"main", "reader", "timer", "match"}
SendTargets == {"alice", "bob"}

\* no thread is sending, nothing was written to a socket, no disconnect was handled,
\* no countdown thread is known
NoSending == [t \in Senders |-> [to |-> "", left |-> 0, done |-> 0]]
NoBytes == [c \in SendTargets |-> << >>]
NoPick == [username1 |-> << >>, username2 |-> << >>, failed |-> << >>, detail |-> << >>,
           current_player_tag |-> << >>, disconnected_player |-> << >>]
NoCountdowns == [c \in Ids |-> << >>]

\* nothing was packed yet
NoPacket == [sent |-> << >>, wire |-> << >>, flips |-> 0, unpacked |-> << >>]

\* no call on the board yet: the footprints placed, the latest call, the cells
\* and the names fire_at returned as hit and as sunk, and the number of cells swept
NoCalls == [footprints |-> << >>, last |-> [op |-> "none"], hits |-> {}, names |-> << >>,
            next |-> 0]

\* the locals of run_multiplayer_game at its first statement
InitLocals ==
    /\ player_boards = [p \in Players |-> NewBoard]
    /\ pcP = [p \in Players |-> "init"]
    /\ ship_idx = [p \in Players |-> 1]
    /\ coord_str = [p \in Players |-> << >>]
    /\ placement_status = [p \in Players |-> "none"]
    /\ turn_count = 0
    /\ timeout_count = [p \in Players |-> 0]
    /\ game_active = TRUE
    /\ e_main_handler = ""
    /\ e_critical_main = FALSE
    /\ disc_player = ""
    /\ wclosed = [p \in Players |-> FALSE]
    /\ stale = [p \in Players |-> 0]
    /\ out = NoOut
    /\ spec_out = << >>
    /\ conn = [p \in Players |-> "up"]
    /\ silent = {}
    /\ unread = [p \in Players |-> << >>]
    /\ pkt = NoPacket
    /\ clock = 0
    /\ reader_out = [client |-> "", error |-> "", line |-> << >>, did |-> "none", sent |-> << >>,
                     lock_held |-> 0]
    /\ fired = NoCalls
    /\ sending = NoSending
    /\ sock_bytes = NoBytes
    /\ picked = NoPick
    /\ remaining = NoCountdowns

\* the server right after start-up; no match is running
InitServer ==
    /\ InitLocals
    /\ pc = "idle"
    /\ sweeper = username1
    /\ clients = NoGlobals.clients
    /\ client_ids = NoGlobals.client_ids
    /\ players_waiting = NoGlobals.players_waiting
    /\ spectators_waiting = NoGlobals.spectators_waiting
    /\ game_in_progress = NoGlobals.game_in_progress
    /\ active_games = NoGlobals.active_games
    /\ disconnected_players = NoGlobals.disconnected_players
    /\ timers = NoGlobals.timers
    /\ games = NoGlobals.games
    /\ reader_live = NoGlobals.reader_live
    /\ zombies = NoGlobals.zombies
    /\ positions = NoGlobals.positions
    /\ main_pc = "accept"
    /\ reconnects = 0
    /\ refused = << >>

\* usernames connect in this order, and these clients may lose their connection
Arrivals == << "alice", "bob", "carol", "dave" >>
Droppers == {"alice", "carol"}

NextArrival == IF Len(client_ids) < Len(Arrivals) THEN {Arrivals[Len(client_ids) + 1]} ELSE {}

NextServer ==
    \/ \E c \in NextArrival : MainRegister(c)
    \/ \E c \in Ids : MainReconnect(c)
    \/ \E c \in Ids : MainReconnectLate(c)
    \/ MainWelcome
    \/ \E c \in Droppers : ClientDrop(c)
    \/ \E c \in Ids : ReaderExit(c)
    \/ \E c \in Ids : StatusCommand(c)
    \/ \E c \in Ids : ZombieExit(c)
    \/ \E g \in 1..MaxGames : WrapperRun(g)
    \/ \E g \in 1..MaxGames : WrapperRecycle(g)
    \/ \E g \in 1..MaxGames : WrapperNext(g)
    \/ \E c \in Ids : TimerStop(c)
    \/ \E c \in Ids : TimerTick(c)
    \/ \E c \in Ids : TimerExpire(c)

SpecServer == InitServer /\ [][NextServer]_vars

\* seven usernames connect in this order to a server that holds MAX_CONNECTIONS;
\* no client loses its connection, and names in use are tried again
LobbyArrivals == << "alice", "bob", "carol", "dave", "erin", "frank", "grace" >>
LobbyRetries == {"alice"}

NextLobbyArrival ==
    IF Len(client_ids) < Len(LobbyArrivals) THEN {LobbyArrivals[Len(client_ids) + 1]} ELSE {}

\* the lobby is followed until MaxLobbyGames matches have been started
LobbyBound == Len(games') <= MaxLobbyGames

NextLobby ==
    \/ \E c \in NextLobbyArrival : MainRegister(c)
    \/ \E raw \in BlankNames : MainRefuseEmpty(raw)
    \/ \E c \in NextLobbyArrival \cup LobbyRetries : MainRefuseFull(c)
    \/ \E c \in LobbyRetries : MainRefuseDuplicate(c)
    \/ MainWelcome /\ LobbyBound
    \/ \E c \in Ids : ReaderExit(c) /\ LobbyBound
    \/ \E g \in 1..MaxLobbyGames : WrapperRun(g)
    \/ \E g \in 1..MaxLobbyGames : WrapperRecycle(g) /\ LobbyBound
    \/ \E g \in 1..MaxLobbyGames : WrapperNext(g) /\ LobbyBound
    \/ \E c \in Ids : TimerExpire(c) /\ LobbyBound

SpecLobby == InitServer /\ [][NextLobby]_vars

\* the server after alice, bob, carol, dave and erin were admitted in this order:
\* alice and bob were promoted when bob was welcomed, the others wait
InitPromotion ==
    /\ InitLocals
    /\ pc = "idle"
    /\ sweeper = username1
    /\ clients = [c \in {"alice", "bob", "carol", "dave", "erin"} |->
                    IF c \in Players THEN [NewClient("player") EXCEPT !.has_queue = TRUE]
                    ELSE NewClient("spectator")]
    /\ client_ids = << "alice", "bob", "carol", "dave", "erin" >>
    /\ players_waiting = << >>
    /\ spectators_waiting = << "carol", "dave", "erin" >>
    /\ game_in_progress = TRUE
    /\ active_games = [p \in Players |-> [disconnected |-> FALSE, opponent |-> Other(p)]]
    /\ disconnected_players = {}
    /\ timers = NoGlobals.timers
    /\ games = << [players |-> << username1, username2 >>, pc |-> "start"] >>
    /\ reader_live = {"alice", "bob", "carol", "dave", "erin"}
    /\ zombies = NoGlobals.zombies
    /\ positions = [c \in Ids |-> IndexIn(<< "carol", "dave", "erin" >>, c)]
    /\ main_pc = "accept"
    /\ reconnects = 0
    /\ refused = << >>

\* frank connects next, and carol may lose her connection; the server is
\* followed until MaxGames matches have been started
PromotionOpen == Len(games) < MaxGames

NextPromotion ==
    \/ PromotionOpen /\ MainRegister("frank")
    \/ PromotionOpen /\ MainWelcome
    \/ PromotionOpen /\ ClientDrop("carol")
    \/ PromotionOpen /\ \E c \in Ids : ReaderExit(c)
    \/ PromotionOpen /\ \E c \in Ids : StatusCommand(c)
    \/ PromotionOpen /\ \E g \in 1..MaxGames : WrapperRun(g)
    \/ PromotionOpen /\ \E g \in 1..MaxGames : WrapperRecycle(g)
    \/ PromotionOpen /\ \E g \in 1..MaxGames : WrapperNext(g)
    \/ PromotionOpen /\ \E c \in Ids : TimerTick(c)
    \/ PromotionOpen /\ \E c \in Ids : TimerExpire(c)

SpecPromotion == InitPromotion /\ [][NextPromotion]_vars

\* run_multiplayer_game entered for alice and bob, as check_start_game leaves the
\* globals when it promotes them (lines 554-582)
InitMatch ==
    /\ InitLocals
    /\ pc = "placing"
    /\ sweeper \in Players
    /\ clients = [p \in Players |-> [NewClient("player") EXCEPT !.has_queue = TRUE]]
    /\ client_ids = << username1, username2 >>
    /\ players_waiting = << >>
    /\ spectators_waiting = << >>
    /\ game_in_progress = TRUE
    /\ active_games = [p \in Players |-> [disconnected |-> FALSE, opponent |-> Other(p)]]
    /\ disconnected_players = {}
    /\ timers = [c \in Ids |-> 0]
    /\ games = << [players |-> << username1, username2 >>, pc |-> "match"] >>
    /\ reader_live = Players
    /\ zombies = [c \in Ids |-> 0]
    /\ positions = [c \in Ids |-> 0]
    /\ main_pc = "accept"
    /\ reconnects = 0
    /\ refused = << >>

\* the threads of run_multiplayer_game
Controller ==
    \/ \E p \in Players : PlaceBegin(p)
    \/ \E p \in Players : \E line \in PlaceCoordMenu(ship_idx[p]) : PlaceRecvCoord(p, line)
    \/ \E p \in Players : \E line \in OrientMenu : PlaceRecvOrient(p, line)
    \/ \E p \in Players : PlaceTimeout(p)
    \/ \E p \in Players : PlaceEOF(p)
    \/ PlacementJoin
    \/ \E line \in ShotMenu(CurrentOf(turn_count)) \cup TypeAheadMenu : TurnRecv(line)
    \/ TurnTimeout
    \/ TurnEOF
    \/ ReconnectSeen
    \/ ReconnectExpire

NextMatch ==
    \/ Controller
    \/ \E p \in Players : Disconnect(p)
    \/ \E p \in Players : StaleEat(p)
    \/ \E p \in Players : GoSilent(p)
    \/ \E p \in Players : \E line \in TypeAheadMenu : TypeAhead(p, line)
    \/ \E p \in Players : MainReconnect(p) /\ pc = "reconnect_wait"
    \/ \E p \in Players : MainReconnectLate(p)
    \/ \E g \in 1..MaxGames : WrapperReturn(g)
    \/ \E g \in 1..MaxGames : WrapperRecycle(g)
    \/ \E g \in 1..MaxGames : WrapperNext(g)

SpecMatch == InitMatch /\ [][NextMatch]_vars

(***************************************************************************)
(* Claims about the registry and the matchmaking                           *)
(***************************************************************************)
\* clients promoted by promote_spectators_to_players and not yet recycled
ActivePlayers == {c \in DOMAIN clients : clients[c].role = "player" /\ clients[c].has_queue}

\* C1: in every reachable state of the server the number of active players
\* (role "player" with an input queue) is 0 or 2, also while run_game_wrapper
\* cleans up a finished match and check_start_game starts a new one.
C1_ActivePlayersZeroOrTwo == Cardinality(ActivePlayers) \in {0, 2}

(***************************************************************************)
(* Claims about the turn phase.  out holds the lines the latest step of    *)
(* the match wrote to each player, so a step is recognised by what it      *)
(* wrote.                                                                  *)
(***************************************************************************)
Has(lines, kind) == \E i \in DOMAIN lines : lines[i].k = kind
HasA(lines, kind, a) == \E i \in DOMAIN lines : lines[i].k = kind /\ lines[i].a = a
Count(lines, kinds) == Cardinality({i \in DOMAIN lines : lines[i].k \in kinds})
\* a line of one of the kinds, and a grid after it
ThenGrid(lines, kinds) ==
    \E i, j \in DOMAIN lines : i < j /\ lines[i].k \in kinds /\ lines[j].k = "GRID"

Ended == pc = "ended"
EndedStaysEnded == Ended => UNCHANGED << pc, player_boards, turn_count, timeout_count >>

\* the step is a strike of p below the forfeit: p's receive timed out
StrikeOf(p) ==
    /\ pc = "await" /\ p = current_player_tag
    /\ timeout_count'[p] = timeout_count[p] + 1
    /\ timeout_count'[p] < MAX_TIMEOUTS

\* C2: when the active player's inactivity budget elapses and the count after the
\* increment is below MAX_TIMEOUTS, both players are told the strike count and the
\* turn passes: the next move awaited is the opponent's.
C2_TimeoutPassesTurn ==
    [][\A p \in Players :
          (StrikeOf(p) /\ pc' = "await")
          => /\ Has(out'[p], "TURN_SKIPPED_SELF")
             /\ Has(out'[Other(p)], "TURN_SKIPPED_OTHER")
             /\ CurrentOf(turn_count') = Other(p)
             /\ Has(out'[Other(p)], "FIRE_PROMPT")]_vars

SilentTurn == pc = "await" /\ current_player_tag \in silent

\* steps of the match the state is away from its end, at most, while the active
\* player stays silent
Rank ==
    IF Ended THEN 0
    ELSE IF pc = "reconnect_wait" THEN 1
    ELSE 2 + MAX_TIMEOUTS - timeout_count[current_player_tag]

C3Inv ==
    /\ (\E p \in Players : timeout_count[p] >= MAX_TIMEOUTS) => Ended
    /\ (SilentTurn \/ pc = "reconnect_wait") => ENABLED Controller

C3Step ==
    /\ \A p \in Players :
          (timeout_count[p] < MAX_TIMEOUTS /\ timeout_count'[p] >= MAX_TIMEOUTS)
          => /\ pc' = "ended"
             /\ player_boards' = player_boards
             /\ Has(out'[p], "FORFEIT_SELF")
             /\ conn[Other(p)] = "up" => HasA(out'[Other(p)], "FORFEIT_WIN", p)
    /\ EndedStaysEnded
    /\ SilentTurn => (SilentTurn' \/ pc' \in {"reconnect_wait", "ended"})
    /\ pc = "reconnect_wait" => pc' \in {"reconnect_wait", "ended"}
    /\ ((SilentTurn \/ pc = "reconnect_wait") /\ Controller) => Rank' < Rank

\* C3: as soon as a player's timeout_count reaches MAX_TIMEOUTS the player
\* forfeits and the match ends with the opponent as winner; nothing is read and
\* no grid changes afterwards; no state with a count of MAX_TIMEOUTS or more has a
\* turn pending; a match whose active player never sends input terminates: while
\* that player is silent a step of the match is always possible (every receive
\* returns within its timeout, line 213; the reconnect wait ends at its deadline,
\* line 569) and each such step brings the end nearer.
C3_ForfeitEndsMatch == []C3Inv /\ [][C3Step]_vars

C3_Witness ==
    /\ Ended
    /\ \E p \in Players :
          /\ timeout_count[p] = MAX_TIMEOUTS
          /\ p \in silent
          /\ HasA(out[Other(p)], "FORFEIT_WIN", p)

\* the step answers an input of the active player that failed parse_coordinate
InvalidInputStep ==
    /\ pc = "await"
    /\ out'[current_player_tag] # << >>
    /\ out'[current_player_tag][1].k = "INVALID_MOVE"

\* C4: when the active player's input fails coordinate parsing, the error goes to
\* the active player only, no grid and no ship list changes, the turn pointer is
\* unchanged and the same player is prompted again.
C4_InvalidInputKeepsTurn ==
    [][InvalidInputStep
       => /\ player_boards' = player_boards
          /\ turn_count' = turn_count
          /\ ~Has(out'[opponent_player_tag], "INVALID_MOVE")
          /\ pc' \in {"await", "reconnect_wait"}
          /\ pc' = "await" => /\ spec_out' = << >>
                              /\ Has(out'[current_player_tag], "FIRE_PROMPT")
                              /\ ~Has(out'[opponent_player_tag], "FIRE_PROMPT")]_vars

C4_Witness ==
    /\ pc = "await"
    /\ turn_count > 0
    /\ out[current_player_tag] # << >>
    /\ out[current_player_tag][1].k = "INVALID_MOVE"
    /\ Has(out[current_player_tag], "FIRE_PROMPT")

\* C5: in every step of the turn phase at most one timeout_count increases (the
\* active player's, by 1), a count decreases only by being reset to 0 when that
\* player makes a valid move, and an input that fails parsing leaves the sender's
\* count unchanged.
C5_TimeoutCountSteps ==
    [][\A p \in Players :
          /\ timeout_count'[p] > timeout_count[p]
             => /\ p = current_player_tag
                /\ timeout_count'[p] = timeout_count[p] + 1
                /\ timeout_count'[Other(p)] = timeout_count[Other(p)]
          /\ timeout_count'[p] < timeout_count[p]
             => /\ timeout_count'[p] = 0
                /\ p = current_player_tag
                /\ Has(out'[p], "YOU_FIRED")
          /\ InvalidInputStep => timeout_count'[p] = timeout_count[p]]_vars

\* the step answers a shot of p at a cell that was shot before
AlreadyShotStep(p) ==
    /\ pc = "await" /\ p = current_player_tag
    /\ HasA(out'[p], "YOU_FIRED", "already_shot")

\* C6: a shot at a cell already shot is a wasted turn: both players are told, the
\* target grid (both views, the ships' remaining cells) is unchanged, and the turn
\* passes to the opponent.
C6_AlreadyShotWastesTurn ==
    [][\A p \in Players :
          AlreadyShotStep(p)
          => /\ player_boards' = player_boards
             /\ conn[Other(p)] = "up"
                => /\ HasA(out'[Other(p)], "OPPONENT_FIRED", "already_shot")
                   /\ turn_count' = turn_count + 1
                   /\ pc' = "await"
                   /\ Has(out'[Other(p)], "FIRE_PROMPT")]_vars

C6_Witness ==
    /\ pc = "await"
    /\ HasA(out[opponent_player_tag], "YOU_FIRED", "already_shot")
    /\ HasA(out[current_player_tag], "OPPONENT_FIRED", "already_shot")
    /\ Has(out[current_player_tag], "FIRE_PROMPT")

\* every ship of the board has no remaining cells
NoCellsLeft(board) ==
    /\ board.placed_ships # << >>
    /\ \A i \in DOMAIN board.placed_ships : board.placed_ships[i].positions = {}

\* cells of the canonical fleet
FleetCells == SHIPS[1].size + SHIPS[2].size + SHIPS[3].size + SHIPS[4].size + SHIPS[5].size

Winner(p) == HasA(out[p], "GAME_OVER_WINS", p)

C7Step ==
    LET cur == current_player_tag
        opp == opponent_player_tag
    IN  /\ (pc = "await" /\ \E p \in Players : Has(out'[p], "GAME_OVER_WINS"))
           => /\ NoCellsLeft(player_boards'[opp])
              /\ ~NoCellsLeft(player_boards[opp])
              /\ pc' = "ended"
              /\ \A p \in Players :
                    /\ HasA(out'[p], "GAME_OVER_WINS", cur)
                    /\ Count(out'[p], GameOverKinds) = 1
                    /\ ThenGrid(out'[p], {"GAME_OVER_WINS"})
        /\ (pc = "await" /\ ~NoCellsLeft(player_boards[opp])
              /\ NoCellsLeft(player_boards'[opp]) /\ conn[opp] = "up")
           => /\ HasA(out'[cur], "GAME_OVER_WINS", cur)
              /\ pc' = "ended"
        /\ EndedStaysEnded

C7Inv ==
    (Ended /\ Winner(sweeper)
       /\ player_boards[Other(sweeper)].display_grid[<<BOARD_SIZE - 1, BOARD_SIZE - 1>>] = ".")
    => (turn_count \div 2) + 1 = FleetCells

\* C7: the active player is declared winner exactly on the shot that leaves every
\* ship of the opponent without remaining cells: not before it, with the GAME OVER
\* line and the final view to both players, and with no turn after it.  With the
\* canonical fleet on both sides and one player firing only at the opponent's ship
\* cells, the win comes on that player's 17th shot.
C7_WinOnLastSinkingShot == []C7Inv /\ [][C7Step]_vars

C7_Witness ==
    /\ Ended
    /\ Winner(sweeper)
    /\ (turn_count \div 2) + 1 = FleetCells
    /\ NoCellsLeft(player_boards[Other(sweeper)])

\* the match ended with a decisive line (win, quit, forfeit, reconnect expiry)
DecisiveEnding == Ended /\ \E p \in Players : Count(out[p], GameOverKinds) > 0

\* C8: every way a match can end sends each player exactly one GAME OVER-style
\* line followed by that player's final grid view, and then closes both writers.
C8_EveryEndingSendsFinalView ==
    DecisiveEnding
    => \A p \in Players :
          /\ wclosed[p]
          /\ conn[p] = "up" => /\ Count(out[p], GameOverKinds) = 1
                               /\ ThenGrid(out[p], GameOverKinds)

\* the board holds the five ships of the canonical fleet
FleetPlaced(board) ==
    /\ Len(board.placed_ships) = Len(SHIPS)
    /\ \A i \in DOMAIN board.placed_ships : board.placed_ships[i].name = SHIPS[i].name

C9Inv ==
    /\ pc \in {"await", "reconnect_wait"}
       => \A p \in Players : FleetPlaced(player_boards[p]) /\ placement_status[p] = "success"
    /\ (\E p \in Players : ~FleetPlaced(player_boards[p]))
       => turn_count = 0 /\ \A p \in Players : Untouched(player_boards[p])

C9Step ==
    \A p \in Players :
       (pc = "placing" /\ player_boards'[p] # player_boards[p])
       => /\ player_boards'[Other(p)] = player_boards[Other(p)]
          /\ pc' = "placing"

\* C9: no move is awaited and fire_at is never applied until both placement
\* routines have completed successfully, each board holding the five ships; the
\* routines run concurrently and each changes only its own player's board.
C9_NoTurnBeforePlacement == []C9Inv /\ [][C9Step]_vars

C9_Witness ==
    /\ pc = "await"
    /\ turn_count = 0
    /\ \A p \in Players : FleetPlaced(player_boards[p]) /\ Untouched(player_boards[p])

\* C10: if a placement fails by quit, by exceeding the placement inactivity budget
\* at a prompt, or by transport failure, the match ends with no turn played.  For a
\* timeout, the finite part: the step in which a placement prompt of p times out
\* leaves p's placement failed.
C10_PlacementTimeoutFails ==
    [][\A p \in Players :
          (pc = "placing" /\ stale'[p] > stale[p])
          => /\ pcP'[p] = "failed"
             /\ placement_status'[p] = "disconnected"]_vars

(***************************************************************************)
(* Claims about the placement prompts                                      *)
(***************************************************************************)
PlacementErrors == {"INVALID_INPUT", "INVALID_ORIENTATION", "CANNOT_PLACE"}

\* the step answers a coordinate/orientation pair of p that failed validation
PlacementRetry(p) ==
    /\ pc = "placing" /\ pcP[p] = "orient"
    /\ out'[p] # << >>
    /\ out'[p][1].k \in PlacementErrors

\* cells of the first n ships of the fleet
RECURSIVE CellsOfFirst(_)
CellsOfFirst(n) == IF n = 0 THEN 0 ELSE SHIPS[n].size + CellsOfFirst(n - 1)

C11Inv ==
    \A p \in Players :
       LET ships == player_boards[p].placed_ships
       IN  /\ Len(ships) <= Len(SHIPS)
           /\ \A k \in DOMAIN ships : ships[k].name = SHIPS[k].name
           /\ pc = "placing"
              => Cardinality(ShipCells(player_boards[p])) = CellsOfFirst(Len(ships))
           /\ (pc = "placing" /\ pcP[p] \in {"coord", "orient"})
              => ship_idx[p] = Len(ships) + 1

C11Step ==
    \A p \in Players :
       /\ PlacementRetry(p)
          => /\ player_boards' = player_boards
             /\ ship_idx' = ship_idx
             /\ pcP'[p] = "coord"
             /\ timeout_count' = timeout_count
             /\ HasA(out'[p], "PLACE", SHIPS[ship_idx[p]].name)
             /\ Has(out'[p], "COORD_PROMPT")
       /\ (pc = "placing" /\ ship_idx[p] >= 1 /\ ship_idx'[p] # ship_idx[p])
          => /\ ship_idx'[p] = ship_idx[p] + 1
             /\ HasA(out'[p], "PLACED", SHIPS[ship_idx[p]].name)
             /\ Len(player_boards'[p].placed_ships) = ship_idx[p]

\* C11: during placement a coordinate/orientation pair that fails validation
\* (unparsable coordinate, orientation other than H or V, overlap or out of bounds)
\* leaves the grid and placed_ships unchanged and the same ship is prompted again;
\* the ship index advances only on a successful placement, so the ships are placed
\* in the order of the fleet and never overlap.
C11_PlacementRetriesSameShip == []C11Inv /\ [][C11Step]_vars

C11_Witness ==
    /\ pc = "placing"
    /\ \E p \in Players :
          /\ pcP[p] = "coord" /\ ship_idx[p] = 2
          /\ out[p] # << >> /\ out[p][1].k = "CANNOT_PLACE"
          /\ Len(player_boards[p].placed_ships) = 1

(***************************************************************************)
(* Claims about quitting                                                   *)
(***************************************************************************)
QuitTyped(p) == unread[p] # << >> /\ Lower(Head(unread[p])) = QUIT

\* C12: a literal quit sent by either player, the active or the waiting one, at
\* any time of the turn phase ends the match with the other player as winner, and
\* no move is applied to either grid once the quit was sent: the step that reads
\* the active player's quit ends the match and tells both players, and while a
\* waiting player's quit is on its way no grid changes and that player is not
\* declared the winner.
C12_QuitEndsMatch ==
    [][/\ (pc = "await" /\ Has(out'[current_player_tag], "QUIT_SELF"))
          => /\ pc' = "ended"
             /\ player_boards' = player_boards
             /\ conn[opponent_player_tag] = "up"
                => HasA(out'[opponent_player_tag], "QUIT_OTHER", current_player_tag)
       /\ \A p \in Players :
             (pc = "await" /\ QuitTyped(p) /\ conn'[p] = "up")
             => /\ player_boards' = player_boards
                /\ ~HasA(out'[p], "FORFEIT_WIN", Other(p))]_vars

(***************************************************************************)
(* Claims about the reconnect window                                       *)
(***************************************************************************)
\* the server has taken the disconnected player back (server.py lines 793-794)
BackInTime ==
    /\ pc = "reconnect_wait"
    /\ disc_player \in DOMAIN active_games
    /\ ~active_games[disc_player].disconnected

\* C13: when the player whose transport failed reconnects under the same username
\* before the deadline, the match continues from the state it was in: the step in
\* which the match tells the opponent of the reconnection leaves the turn pointer,
\* both grids and both timeout counters unchanged, does not end the match, and
\* prompts the player whose turn it is.
C13_ReconnectResumesMatch ==
    [][(/\ BackInTime
        /\ conn[Other(disc_player)] = "up"
        /\ HasA(out'[Other(disc_player)], "OPPONENT_RECONNECTED", disc_player))
       => /\ pc' = "await"
          /\ turn_count' = turn_count
          /\ player_boards' = player_boards
          /\ timeout_count' = timeout_count
          /\ Has(out'[current_player_tag], "FIRE_PROMPT")]_vars

\* the reconnect wait of the match with the player still away
StillAway ==
    /\ pc = "reconnect_wait"
    /\ disc_player \in DOMAIN active_games
    /\ active_games[disc_player].disconnected

C14Inv ==
    /\ StillAway => ENABLED ReconnectExpire
    /\ (Ended /\ games[1].pc = "match") => game_in_progress /\ ENABLED WrapperReturn(1)

C14Step ==
    /\ (StillAway /\ pc' # "reconnect_wait")
       => /\ pc' = "ended"
          /\ player_boards' = player_boards
          /\ conn[Other(disc_player)] = "up"
             => /\ Has(out'[Other(disc_player)], "RECONNECT_FAILED_WIN")
                /\ Count(out'[Other(disc_player)], GameOverKinds) = 1
    /\ (games[1].pc = "match" /\ games'[1].pc # "match")
       => Ended /\ ~game_in_progress'
    /\ \A c \in Players :
          MainReconnectLate(c)
          => /\ Reconnecting(c)'
             /\ pc' = pc
             /\ clients'[c].socket # "open" \/ clients[c].socket = "open"

InQueue(c) == IndexIn(players_waiting \o spectators_waiting, c) > 0

\* the step ends the reader thread of c, which is no player of a match
DropsOutsideMatch(c) ==
    /\ c \in reader_live /\ c \notin reader_live'
    /\ c \notin DOMAIN active_games
    /\ clients[c].role # "player"

\* C15: after the transport of a client that is no player of a running match has
\* failed, the client has left the registry and both waiting lists; it no longer
\* counts toward MAX_CONNECTIONS and its username can be admitted again.
C15_DroppedClientLeavesRegistry ==
    [][\A c \in Ids :
          DropsOutsideMatch(c)
          => /\ c \notin DOMAIN clients'
             /\ ~InQueue(c)'
             /\ Len(client_ids') = Len(client_ids) - 1]_vars

\* the registry never holds more than MAX_CONNECTIONS clients, and no username
\* is held by two of them
C16Inv ==
    /\ Len(client_ids) <= MAX_CONNECTIONS
    /\ \A i, j \in DOMAIN client_ids : client_ids[i] = client_ids[j] => i = j
    /\ DOMAIN clients = { client_ids[i] : i \in DOMAIN client_ids }

\* a step of main that refuses a connection has one of the three reasons and leaves
\* the registry, the waiting lists and the matches alone; a step that registers a
\* client has none of the three reasons
C16Step ==
    /\ refused' # refused =>
          /\ UNCHANGED << clients, client_ids, players_waiting, spectators_waiting,
                          game_in_progress, active_games, games, reader_live >>
          /\ \/ refused'[2] = "empty"
             \/ refused'[2] = "full" /\ Len(client_ids) >= MAX_CONNECTIONS
             \/ refused'[2] = "duplicate" /\ refused'[1] \in DOMAIN clients
    /\ client_ids' # client_ids =>
          /\ Len(client_ids) < MAX_CONNECTIONS
          /\ Len(client_ids') = Len(client_ids) + 1
          /\ client_ids'[Len(client_ids')] \notin DOMAIN clients
          /\ client_ids'[Len(client_ids')] # ""

\* C16: a new connection with an empty username, with the id of a registered
\* client, or arriving when MAX_CONNECTIONS clients are registered is refused: no
\* client record is created or altered, the waiting lists do not change and no
\* match is started; the registry never exceeds MAX_CONNECTIONS and never holds a
\* username twice
C16_RefusedConnectionsChangeNothing == []C16Inv /\ [][C16Step]_vars

\* the seventh username was refused by a full server
C16_Witness ==
    /\ refused = << "grace", "full" >>
    /\ Len(client_ids) = MAX_CONNECTIONS
    /\ "grace" \notin DOMAIN clients

\* the combined queue of update_spectator_positions, and the clients of a match
\* that has not reached the finally of run_game_wrapper
WaitingQueue == players_waiting \o spectators_waiting
Playing(c) ==
    \E g \in DOMAIN games :
        /\ games[g].pc \in {"start", "match"}
        /\ \E i \in 1..2 : games[g].players[i] = c

\* C17: the position last reported to a connected client in the queue (queue
\* update, /status or welcome) is its place in players_waiting followed by
\* spectators_waiting, so that the reported positions are 1..N without gap or
\* duplicate; no id is in the queue twice and no client that is playing is in it
C17_QueuePositionsAreExact ==
    /\ \A i, j \in DOMAIN WaitingQueue : WaitingQueue[i] = WaitingQueue[j] => i = j
    /\ \A i \in DOMAIN WaitingQueue : ~Playing(WaitingQueue[i])
    /\ main_pc = "accept" =>
          \A i \in DOMAIN WaitingQueue :
              (clients[WaitingQueue[i]].socket = "open" /\ positions[WaitingQueue[i]] # 0)
                  => positions[WaitingQueue[i]] = i

\* the clients that a step promotes, and the queue it promotes from: the waiting
\* clients in the registry that the step does not drop from the waiting lists
NewlyPromoted == {c \in DOMAIN clients : ~clients[c].has_queue /\ clients'[c].has_queue}
EligibleWaiting ==
    SelectSeq(WaitingQueue, LAMBDA c : /\ c \in DOMAIN clients
                                       /\ (IndexIn(WaitingQueue', c) > 0 \/ c \in NewlyPromoted))

\* C18: a step that promotes finds at least two eligible clients waiting and
\* promotes exactly the two front-most of them: both leave the waiting lists and
\* both have role 'player' and an empty input queue after the same step, so no
\* state has only one of them promoted; with fewer than two eligible clients no
\* client is promoted
C18_PromotionTakesTwoFrontmost ==
    [][/\ NewlyPromoted # {} =>
            /\ Len(EligibleWaiting) >= 2
            /\ NewlyPromoted = {EligibleWaiting[1], EligibleWaiting[2]}
            /\ \A c \in NewlyPromoted :
                  /\ IndexIn(WaitingQueue', c) = 0
                  /\ clients'[c].role = "player"
                  /\ clients'[c].input_queue = << >>
       /\ Len(EligibleWaiting) < 2 => NewlyPromoted = {}]_vars

\* the step of run_game_wrapper that recycles the players of match g
Recycles(g) == g \in DOMAIN games /\ games[g].pc = "sleep" /\ games'[g].pc = "next"

\* C19: when the match has ended and its players are recycled, each of the two
\* that is still connected keeps its connection, has role 'spectator' and no
\* input queue, and stands in the waiting queue behind every client that was
\* waiting before, ready for the next promotion
C19_PlayersReturnToQueue ==
    [][\A g \in 1..MaxGames : Recycles(g) =>
          \A i \in 1..2 :
              LET p == games[g].players[i]
              IN  clients[p].socket = "open" =>
                    /\ clients'[p].socket = "open"
                    /\ clients'[p].role = "spectator"
                    /\ ~clients'[p].has_queue
                    /\ IndexIn(WaitingQueue', p) > 0
                    /\ \A j \in DOMAIN WaitingQueue :
                          IndexIn(WaitingQueue', WaitingQueue[j]) < IndexIn(WaitingQueue', p)]_vars

\* the waiting clients whose connection is up; no match in progress and two of
\* them waiting
LiveWaiting ==
    {c \in DOMAIN clients : IndexIn(WaitingQueue, c) > 0 /\ clients[c].socket = "open"}
Waiting2 == ~game_in_progress /\ Cardinality(LiveWaiting) >= 2

\* the steps that threads still have to take before a check_start_game they owe:
\* main before its welcome, run_game_wrapper in its finally
PendingRank ==
    (IF main_pc # "accept" THEN 1 ELSE 0)
    + 2 * Cardinality({g \in DOMAIN games : games[g].pc = "sleep"})
    + Cardinality({g \in DOMAIN games : games[g].pc = "next"})

\* a step that ends with the check_start_game of main or of run_game_wrapper
ChecksStart ==
    \/ main_pc # "accept" /\ main_pc' = "accept"
    \/ \E g \in DOMAIN games : games[g].pc = "next" /\ games'[g].pc = "done"

C20Inv == Waiting2 => PendingRank > 0

C20Step ==
    /\ ChecksStart => ~Waiting2'
    /\ (Waiting2 /\ Waiting2') =>
          \/ PendingRank' <= PendingRank
          \/ client_ids' # client_ids
          \/ \E g \in DOMAIN games : games[g].pc = "start" /\ games'[g].pc = "sleep"

RECURSIVE SumBytes(_)
\* sum(body)
SumBytes(bytes) == IF bytes = << >> THEN 0 ELSE Head(bytes) + SumBytes(Tail(bytes))

\* a 16-bit field written low byte first
PackH_Swapped(n) == << n % 256, n \div 256 >>

\* struct.pack('!H', n): network order, high byte first
PackH(n) == << n \div 256, n % 256 >>

\* struct.unpack('!H', b)
UnpackH(b) == b[1] * 256 + b[2]

\* lines 31-37
pack_packet(seq_num, pktType, payload_bytes) ==
    LET header   == PackH(seq_num) \o << pktType >> \o PackH(Len(payload_bytes))
        body     == header \o payload_bytes
        checksum == SumBytes(body) % 256
    IN  body \o << checksum >>

\* what unpack_packet gives: the ValueError it raises ("" for none) or the triple
Unpacked(error, seq, pkt_type, payload) ==
    [error |-> error, seq |-> seq, pkt_type |-> pkt_type, payload |-> payload]

\* unpacking that does not compare the checksums
unpack_packet_NoCheck(packet_bytes) ==
    IF Len(packet_bytes) < 6 THEN Unpacked("Packet too short", 0, 0, << >>)
    ELSE Unpacked("", UnpackH(SubSeq(packet_bytes, 1, 2)), packet_bytes[3],
                  SubSeq(packet_bytes, 6, Len(packet_bytes) - 1))

\* lines 40-51
unpack_packet(packet_bytes) ==
    IF Len(packet_bytes) < 6 THEN Unpacked("Packet too short", 0, 0, << >>)
    ELSE LET seq      == UnpackH(SubSeq(packet_bytes, 1, 2))
             pkt_type == packet_bytes[3]
             payload  == SubSeq(packet_bytes, 6, Len(packet_bytes) - 1)
             recv_sum == packet_bytes[Len(packet_bytes)]
             body     == SubSeq(packet_bytes, 1, Len(packet_bytes) - 1)
             calc_sum == SumBytes(body) % 256
         IN  IF recv_sum # calc_sum THEN Unpacked("Checksum mismatch", 0, 0, << >>)
             ELSE Unpacked("", seq, pkt_type, payload)

\* byte ^ (1 << bit), checksum_demo.py lines 26-27
FlipBit(byte, bit) ==
    IF (byte \div (2 ^ bit)) % 2 = 1 THEN byte - 2 ^ bit ELSE byte + 2 ^ bit

\* the sequence numbers, type codes and payload bytes that are packed
SeqMenu == {0, 1, 255, 256, 65535}
TypeMenu == {0, 1, 2, 7, 255}
ByteMenu == {0, 65, 255}
PayloadMenu == UNION { [1..n -> ByteMenu] : n \in 0..MaxPayload }

\* a sender packs a packet and puts it on the wire
PacketSend(seq_num, pktType, payload_bytes) ==
    /\ pkt.wire = << >>
    /\ pkt' = [sent |-> << seq_num, pktType, payload_bytes >>,
               wire |-> pack_packet(seq_num, pktType, payload_bytes),
               flips |-> 0, unpacked |-> << >>]
    /\ UNCHANGED << match_vars, server_vars, clock, reader_out, fired, net_vars >>

\* inject_random_byte_error: one bit of one byte before the checksum is flipped
PacketFlip(error_index, bit) ==
    /\ pkt.wire # << >> /\ pkt.unpacked = << >>
    /\ pkt.flips < MaxFlips
    /\ error_index \in 1..(Len(pkt.wire) - 1)
    /\ pkt' = [pkt EXCEPT !.wire[error_index] = FlipBit(@, bit), !.flips = @ + 1]
    /\ UNCHANGED << match_vars, server_vars, clock, reader_out, fired, net_vars >>

\* the receiver unpacks what is on the wire
PacketUnpack ==
    /\ pkt.wire # << >> /\ pkt.unpacked = << >>
    /\ pkt' = [pkt EXCEPT !.unpacked = << unpack_packet(pkt.wire) >>]
    /\ UNCHANGED << match_vars, server_vars, clock, reader_out, fired, net_vars >>

NextPacket ==
    \/ \E seq_num \in SeqMenu : \E pktType \in TypeMenu : \E payload_bytes \in PayloadMenu :
          PacketSend(seq_num, pktType, payload_bytes)
    \/ \E error_index \in 1..(5 + MaxPayload) : \E bit \in 0..7 : PacketFlip(error_index, bit)
    \/ PacketUnpack

SpecPacket == InitServer /\ [][NextPacket]_vars

\* C22: unpack_packet(pack_packet(seq, type, payload)) is (seq, type, payload), for
\* sequence numbers up to 65535, every type code and every payload
C22_UnpackInvertsPack ==
    (pkt.unpacked # << >> /\ pkt.flips = 0) =>
        pkt.unpacked[1] = Unpacked("", pkt.sent[1], pkt.sent[2], pkt.sent[3])

\* the largest sequence number with a payload of the greatest length came back
C22_Witness ==
    /\ pkt.unpacked # << >> /\ pkt.flips = 0
    /\ pkt.sent[1] = 65535 /\ Len(pkt.sent[3]) = MaxPayload
    /\ pkt.unpacked[1].error = ""

\* C23: the last byte of a packed packet is the sum of the bytes before it modulo
\* 256, and a packet with one bit of one byte before the checksum flipped is
\* rejected by unpack_packet with a checksum mismatch
C23_SingleBitFlipIsRejected ==
    /\ (pkt.wire # << >> /\ pkt.flips = 0) =>
          pkt.wire[Len(pkt.wire)] = SumBytes(SubSeq(pkt.wire, 1, Len(pkt.wire) - 1)) % 256
    /\ (pkt.unpacked # << >> /\ pkt.flips = 1) =>
          pkt.unpacked[1].error = "Checksum mismatch"

\* a packet with a flipped bit in its payload was unpacked
C23_Witness ==
    /\ pkt.unpacked # << >> /\ pkt.flips = 1
    /\ pkt.wire # pack_packet(pkt.sent[1], pkt.sent[2], pkt.sent[3])
    /\ SubSeq(pkt.wire, 1, 5) = SubSeq(pack_packet(pkt.sent[1], pkt.sent[2], pkt.sent[3]), 1, 5)

(***************************************************************************)
(* handle_client_input: one frame read by the thread of a client           *)
(***************************************************************************)
\* str.encode() and bytes.decode() for the characters of the lines below
CodeChars == << " ", "/", "1", "Q", "U", "I", "T", "a", "h", "i", "q", "t", "u" >>
CodeBytes == << 32, 47, 49, 81, 85, 73, 84, 97, 104, 105, 113, 116, 117 >>
Encode(s) == [i \in 1..Len(s) |-> CodeBytes[IndexIn(CodeChars, s[i])]]
Decode(b) == [i \in 1..Len(b) |-> CodeChars[IndexIn(CodeBytes, b[i])]]

\* the lines clients type
LineMenu == { << >>, << " " >>, << "/", "q", "u", "i", "t" >>, << "/", "Q", "U", "I", "T" >>,
              << "h", "i" >> }

\* the frame a client sends for a line, with or without a bit of its first byte
\* flipped on the way
FrameBytes(line, corrupt) ==
    LET packet == pack_packet(1, USER_INPUT, Encode(line))
    IN  IF corrupt THEN [packet EXCEPT ![1] = FlipBit(@, 0)] ELSE packet

\* packet.py lines 64-80 on the bytes of one frame: << >> is None
receive_packet(packet_bytes) ==
    LET u == unpack_packet(packet_bytes)
    IN  IF u.error # "" THEN << >> ELSE << u.seq, u.pkt_type, u.payload >>

\* command.lower().strip().split(maxsplit=1)[0]
RECURSIVE FirstWord(_)
FirstWord(s) == IF s = << >> \/ IsSpace(Head(s)) THEN << >>
                ELSE << Head(s) >> \o FirstWord(Tail(s))

\* handle_command, lines 142-234
handle_command(G, client_id, command) ==
    LET cmd  == FirstWord(Strip(Lower(command)))
        args == Strip(SubSeq(Strip(Lower(command)), Len(cmd) + 1, Len(Strip(Lower(command)))))
        position == IndexIn(G.players_waiting \o G.spectators_waiting, client_id)
    IN  IF cmd = << "/", "s", "t", "a", "t", "u", "s" >>
           /\ G.clients[client_id].role = "spectator" /\ position > 0
        THEN send_message_to_client(send_position(G, client_id, position), client_id)
        ELSE IF cmd = << "/", "c", "h", "a", "t" >> /\ args # << >>
        THEN broadcast_to_all(G, client_id)
        ELSE send_message_to_client(G, client_id)

\* what a step of the thread did: whose frame, what unpack_packet said, the line,
\* the branch taken, the lines sent back to the client, and how many "with lock"
\* blocks of the thread were open around the sendall of those lines
ReaderOut(client_id, error, line, did, sent, lock_held) ==
    [client |-> client_id, error |-> error, line |-> line, did |-> did, sent |-> sent,
     lock_held |-> lock_held]

\* lines 249-293 without the rate limit check of lines 267-270
ReaderRecv_Unlimited(c, typed, corrupt) ==
    /\ c \in reader_live
    /\ clients[c].socket = "open"
    /\ LET result == receive_packet(FrameBytes(typed, corrupt))
           line   == IF result = << >> THEN << >> ELSE Strip(Decode(result[3]))
           G1     == [Globals EXCEPT !.clients[c].last_input_time = clock]
       IN  IF result = << >>
           THEN /\ ServerStep(remove_client([Globals EXCEPT !.reader_live = @ \ {c}], c))
                /\ reader_out' = ReaderOut(c, unpack_packet(FrameBytes(typed, corrupt)).error,
                                           line, "exit", << >>, 0)
           ELSE IF line = << >>
           THEN /\ ServerStep(Globals)
                /\ reader_out' = ReaderOut(c, "", line, "empty", << >>, 0)
           ELSE IF Head(line) = "/"
           THEN /\ ServerStep(handle_command(G1, c, line))
                /\ reader_out' = ReaderOut(c, "", line, "command", << "reply" >>, 0)
           ELSE IF clients[c].role = "player" /\ game_in_progress /\ clients[c].has_queue
           THEN /\ Len(clients[c].input_queue) < MaxQueued
                /\ ServerStep([G1 EXCEPT !.clients[c].input_queue = Append(@, line)])
                /\ reader_out' = ReaderOut(c, "", line, "queued", << >>, 0)
           ELSE /\ ServerStep(broadcast_to_all(G1, c))
                /\ reader_out' = ReaderOut(c, "", line, "chat", << >>, 0)
    /\ UNCHANGED << main_pc, reconnects, refused, pkt, clock, fired, net_vars >>

\* handle_client_input, lines 249-299: one frame of client c is read and dealt with
ReaderRecv(c, typed, corrupt) ==
    /\ c \in reader_live
    /\ clients[c].socket = "open"
    /\ LET result == receive_packet(FrameBytes(typed, corrupt))
           line   == IF result = << >> THEN << >> ELSE Strip(Decode(result[3]))
           time_since_last_input == clock - clients[c].last_input_time
           G1     == [Globals EXCEPT !.clients[c].last_input_time = clock]
       IN  IF result = << >>
           THEN /\ ServerStep(remove_client([Globals EXCEPT !.reader_live = @ \ {c}], c))
                /\ reader_out' = ReaderOut(c, unpack_packet(FrameBytes(typed, corrupt)).error,
                                           line, "exit", << >>, 0)
           ELSE IF line = << >>
           THEN /\ ServerStep(Globals)
                /\ reader_out' = ReaderOut(c, "", line, "empty", << >>, 0)
           ELSE IF time_since_last_input < INPUT_RATE_DELAY
           THEN /\ ServerStep(send_message_to_client(Globals, c))
                /\ reader_out' = ReaderOut(c, "", line, "rate_limited", << "rate_limit" >>, 1)
           ELSE IF Head(line) = "/"
           THEN /\ ServerStep(handle_command(G1, c, line))
                /\ reader_out' = ReaderOut(c, "", line, "command", << "reply" >>, 0)
           ELSE IF clients[c].role = "player" /\ game_in_progress /\ clients[c].has_queue
           THEN /\ Len(clients[c].input_queue) < MaxQueued
                /\ ServerStep([G1 EXCEPT !.clients[c].input_queue = Append(@, line)])
                /\ reader_out' = ReaderOut(c, "", line, "queued", << >>, 0)
           ELSE /\ ServerStep(broadcast_to_all(G1, c))
                /\ reader_out' = ReaderOut(c, "", line, "chat", << >>, 0)
    /\ UNCHANGED << main_pc, reconnects, refused, pkt, clock, fired, net_vars >>

\* time passes
ClockTick ==
    /\ clock < MaxClock
    /\ clock' = clock + 1
    /\ UNCHANGED << match_vars, server_vars, pkt, reader_out, fired, net_vars >>

\* alice, bob and carol connect in this order and type lines; frames may arrive
\* corrupted
ReaderArrivals == << "alice", "bob", "carol" >>
NextReaderArrival ==
    IF Len(client_ids) < Len(ReaderArrivals) THEN {ReaderArrivals[Len(client_ids) + 1]} ELSE {}

NextReader ==
    \/ \E c \in NextReaderArrival : MainRegister(c)
    \/ MainWelcome
    \/ \E c \in Ids : \E typed \in LineMenu : \E corrupt \in BOOLEAN : ReaderRecv(c, typed, corrupt)
    \/ ClockTick
    \/ \E g \in 1..MaxGames : WrapperRun(g)
    \/ \E c \in Ids : TimerExpire(c)

SpecReader == InitServer /\ [][NextReader]_vars

\* C21: a frame whose checksum does not match gives one decode error and the
\* session goes on: the client keeps its reader, its open socket and its place in
\* the waiting lists or in its match
C21_CorruptFrameKeepsSession ==
    [][\A c \in Ids :
          (reader_out' # reader_out /\ reader_out'.client = c
              /\ reader_out'.error = "Checksum mismatch")
          => /\ c \in reader_live'
             /\ clients'[c].socket = "open"
             /\ players_waiting' = players_waiting
             /\ spectators_waiting' = spectators_waiting
             /\ active_games' = active_games
             /\ disconnected_players' = disconnected_players]_vars

\* C24: a line that arrives less than INPUT_RATE_DELAY after the last accepted
\* input of its client is answered with one warning and dropped: the state of
\* the server and of the match, last_input_time included, is as before
C24_RateLimitedLineIsDropped ==
    [][\A c \in Ids :
          (reader_out' # reader_out /\ reader_out'.client = c /\ reader_out'.line # << >>
              /\ clock - clients[c].last_input_time < INPUT_RATE_DELAY)
          => /\ reader_out'.did = "rate_limited"
             /\ reader_out'.sent = << "rate_limit" >>
             /\ UNCHANGED << server_vars, match_vars >>]_vars

\* a player whose line was queued typed again at once and was warned
C24_Witness ==
    \E c \in DOMAIN clients :
        /\ reader_out.client = c /\ reader_out.did = "rate_limited"
        /\ clients[c].input_queue # << >>
        /\ clients[c].last_input_time = clock
        /\ c \in reader_live /\ clients[c].socket = "open"

\* every thread of the server other than the readers is blocked: main in accept,
\* no run_game_wrapper on its way and no reconnect countdown running
ServerIdle ==
    /\ main_pc = "accept"
    /\ \A g \in DOMAIN games : games[g].pc = "done"
    /\ \A c \in Ids : timers[c] = 0 /\ zombies[c] = 0

\* the latest frame was a /quit of c, who is not a player of a running match
QuitHandled(c) ==
    /\ reader_out.client = c /\ reader_out.did = "command"
    /\ FirstWord(Lower(reader_out.line)) = << "/", "q", "u", "i", "t" >>
    /\ ~(game_in_progress /\ c \in DOMAIN active_games)

\* c has no reader, no open socket and no place in the waiting lists
QuitRemoved(c) ==
    /\ c \notin reader_live
    /\ (c \notin DOMAIN clients \/ clients[c].socket # "open")
    /\ IndexIn(players_waiting \o spectators_waiting, c) = 0

\* C26: once the server has handled /quit, in any letter case, of a client that
\* is not a player of a running match, it disconnects and removes that client
\* by itself, with no further action of the client: when the server has
\* nothing left to do, the client has left the waiting lists and its socket is
\* closed
C26_QuitDisconnectsClient ==
    \A c \in Ids : (QuitHandled(c) /\ ServerIdle) => QuitRemoved(c)

\* the public view of a truth grid: its shot cells, and "." for every other cell
PublicView(hidden_grid) ==
    [c \in Cells |-> IF hidden_grid[c] \in {"X", "o"} THEN hidden_grid[c] ELSE "."]

\* C25: every step that changes the truth grid of a player writes the rendering
\* of both public grids to the spectators exactly once, and the grid that is
\* rendered for them shows no ship cell that was not hit
C25_GridMutationBroadcastsOnce ==
    [][/\ (\E p \in Players : player_boards'[p].hidden_grid # player_boards[p].hidden_grid)
          => Len(SelectSeq(spec_out', LAMBDA m : m.k = "BOARDS")) = 1
       /\ \A p \in Players :
             player_boards'[p].display_grid = PublicView(player_boards'[p].hidden_grid)]_vars

(***************************************************************************)
(* A Board driven by its caller as in run_single_player_game_locally: the  *)
(* fleet is placed ship by ship, then shots are fired.  The board is       *)
(* player_boards[username1].                                               *)
(***************************************************************************)
\* the placements tried for the ship with index i: the row of p1.py, the first
\* row again, a column, a row that crosses that column, a row that runs to the
\* right edge, and a column that leaves the grid
PlaceMenu(i) == { << i - 1, 0, 0 >>, << 0, 0, 0 >>, << 0, 6, 1 >>, << 2, 4, 0 >>,
                  << 0, 7, 0 >>, << 9, 9, 1 >> }

\* the cells are swept row by row over the rows that can hold ships; these cells
\* may be fired at at any time
SweepRows == 5
SweepCell(n) == << (n - 1) \div BOARD_SIZE, (n - 1) % BOARD_SIZE >>
RepeatMenu == { << 0, 0 >>, << 1, 3 >>, << 4, 6 >>, << 9, 9 >> }

UNCHANGED_board_rest ==
    UNCHANGED << pcP, ship_idx, coord_str, placement_status, pc, turn_count, timeout_count,
                 game_active, e_main_handler, e_critical_main, disc_player, wclosed, stale,
                 out, spec_out, conn, silent, sweeper, unread, server_vars, pkt, clock,
                 reader_out, net_vars >>

\* place_ships_manually / place_ships_randomly, lines 51-88: one attempt for the
\* next ship of SHIPS
BoardPlace(row, col, orientation) ==
    LET board == player_boards[username1]
        i     == Len(board.placed_ships) + 1
    IN  /\ i <= Len(SHIPS)
        /\ IF can_place_ship(board, row, col, SHIPS[i].size, orientation)
           THEN /\ player_boards' = [player_boards EXCEPT ![username1] =
                        place_ship(board, SHIPS[i].name, row, col, SHIPS[i].size, orientation)]
                /\ fired' = [fired EXCEPT
                        !.footprints = Append(@, Footprint(row, col, SHIPS[i].size, orientation)),
                        !.last = [op |-> "place", at |-> << row, col, orientation >>,
                                  ok |-> TRUE]]
           ELSE /\ UNCHANGED player_boards
                /\ fired' = [fired EXCEPT
                        !.last = [op |-> "place", at |-> << row, col, orientation >>,
                                  ok |-> FALSE]]
        /\ UNCHANGED_board_rest

\* run_single_player_game_locally, lines 670-676: one shot at the placed fleet
BoardFire(row, col) ==
    LET board == player_boards[username1]
        shot  == fire_at(board, row, col)
        swept == fired.next < SweepRows * BOARD_SIZE /\ SweepCell(fired.next + 1) = << row, col >>
    IN  /\ Len(board.placed_ships) = Len(SHIPS)
        /\ ~all_ships_sunk(board)
        /\ swept \/ << row, col >> \in RepeatMenu
        /\ player_boards' = [player_boards EXCEPT ![username1] = shot.board]
        /\ fired' = [fired EXCEPT
                !.last = [op |-> "fire", at |-> << row, col >>, result |-> shot.result,
                          sunk |-> shot.sunk],
                !.hits = IF shot.result = "hit" THEN @ \cup {<< row, col >>} ELSE @,
                !.names = IF shot.sunk # "" THEN Append(@, shot.sunk) ELSE @,
                !.next = IF swept THEN @ + 1 ELSE @]
        /\ UNCHANGED_board_rest

NextBoard ==
    \/ \E at \in PlaceMenu(Len(player_boards[username1].placed_ships) + 1) :
          BoardPlace(at[1], at[2], at[3])
    \/ \E cell \in Cells : BoardFire(cell[1], cell[2])

SpecBoard == InitServer /\ [][NextBoard]_vars

\* the board of the local game and the step that fires at it
TheBoard == player_boards[username1]
Fires == fired'.last.op = "fire" /\ fired' # fired

\* C27: fire_at on a cell marked X or o returns already_shot and changes neither
\* grid nor any ship's remaining cells; on a live cell it changes that cell once,
\* S to X with hit and "." to o with miss, and leaves it marked, so that a second
\* shot at the cell is already_shot
C27_FireAtMutatesOnce ==
    [][Fires =>
        LET cell == fired'.last.at
            ch   == TheBoard.hidden_grid[cell]
        IN  /\ ch \in {"X", "o"} =>
                  fired'.last.result = "already_shot" /\ UNCHANGED player_boards
            /\ ch = "S" =>
                  /\ fired'.last.result = "hit"
                  /\ TheBoard'.hidden_grid = [TheBoard.hidden_grid EXCEPT ![cell] = "X"]
                  /\ TheBoard'.display_grid = [TheBoard.display_grid EXCEPT ![cell] = "X"]
            /\ ch = "." =>
                  /\ fired'.last.result = "miss"
                  /\ TheBoard'.hidden_grid = [TheBoard.hidden_grid EXCEPT ![cell] = "o"]
                  /\ TheBoard'.display_grid = [TheBoard.display_grid EXCEPT ![cell] = "o"]
                  /\ TheBoard'.placed_ships = TheBoard.placed_ships
            /\ TheBoard'.hidden_grid[cell] \in {"X", "o"}]_vars

\* a cell that was hit before was fired at again
C27_Witness ==
    /\ fired.last.op = "fire" /\ fired.last.result = "already_shot"
    /\ fired.last.at \in fired.hits
    /\ TheBoard.hidden_grid[fired.last.at] = "X"

\* the names fire_at returned as sunk, and the ships without remaining cells
TimesSunk(name) == Len(SelectSeq(fired.names, LAMBDA n : n = name))
C28Inv ==
    /\ \A i \in 1..Len(TheBoard.placed_ships) :
          /\ TimesSunk(TheBoard.placed_ships[i].name) =
                 (IF TheBoard.placed_ships[i].positions = {} THEN 1 ELSE 0)
          /\ (fired.hits \cap fired.footprints[i] = fired.footprints[i])
                 <=> TheBoard.placed_ships[i].positions = {}
    /\ all_ships_sunk(TheBoard) <=>
          /\ Len(TheBoard.placed_ships) >= 1
          /\ \A i \in 1..Len(TheBoard.placed_ships) : TheBoard.placed_ships[i].positions = {}
C28Step ==
    Fires =>
        \A i \in 1..Len(TheBoard.placed_ships) :
            (fired'.last.sunk = TheBoard.placed_ships[i].name)
               <=> /\ TheBoard.placed_ships[i].positions # {}
                   /\ TheBoard'.placed_ships[i].positions = {}

\* C28: fire_at returns the name of a ship exactly once, on the shot that removes
\* the last of its remaining cells, and no name on any other shot; the cells it
\* reported as hit cover the footprint of a ship iff that ship is sunk; and
\* all_ships_sunk holds iff a ship was placed and no ship has a remaining cell
C28_SunkNameOnLastCellOnly == [](C28Inv) /\ [][C28Step]_vars

\* the whole fleet was sunk, every name returned once
C28_Witness ==
    /\ all_ships_sunk(TheBoard)
    /\ Len(fired.names) = Len(SHIPS)
    /\ fired.last.op = "fire" /\ fired.last.sunk # ""

\* an axis-aligned segment of the given length inside the grid
IsSegment(cells, length) ==
    \E row \in 0..(BOARD_SIZE - 1) : \E col \in 0..(BOARD_SIZE - 1) : \E orientation \in {0, 1} :
        /\ cells = Footprint(row, col, length, orientation)
        /\ cells \subseteq Cells
C29Inv ==
    /\ Len(fired.footprints) = Len(TheBoard.placed_ships)
    /\ \A i \in 1..Len(fired.footprints) :
          /\ IsSegment(fired.footprints[i], SHIPS[i].size)
          /\ TheBoard.placed_ships[i].positions = fired.footprints[i] \ fired.hits
          /\ \A j \in 1..Len(fired.footprints) :
                i # j => fired.footprints[i] \cap fired.footprints[j] = {}
    /\ {c \in Cells : TheBoard.hidden_grid[c] \in {"S", "X"}}
          = UNION {fired.footprints[i] : i \in 1..Len(fired.footprints)}
    /\ {c \in Cells : TheBoard.hidden_grid[c] = "S"}
          = UNION {fired.footprints[i] : i \in 1..Len(fired.footprints)} \ fired.hits
\* the attempts of p1.py: a1 h, b1 h, c1 h, d1 h, e1 h
CanonicalSoFar ==
    \A i \in 1..Len(fired.footprints) : fired.footprints[i] = Footprint(i - 1, 0, SHIPS[i].size, 0)
C29Step ==
    (/\ fired'.last.op = "place" /\ fired' # fired
     /\ CanonicalSoFar
     /\ fired'.last.at = << Len(fired.footprints), 0, 0 >>)
    => fired'.last.ok /\ CanonicalSoFar'

\* C29: whatever placements are tried, the ships that can_place_ship let through
\* are pairwise disjoint segments, horizontal or vertical, of their declared
\* lengths inside the grid, and the S cells of the truth grid are exactly the
\* cells of their footprints; the five ships placed horizontally at A1, B1, C1,
\* D1, E1 in the declared order are all accepted
C29_PlacedShipsAreDisjointSegments == [](C29Inv) /\ [][C29Step]_vars

\* the fleet of p1.py is on the board, its last ship just placed
C29_Witness ==
    /\ Len(fired.footprints) = Len(SHIPS) /\ CanonicalSoFar
    /\ fired.last.op = "place" /\ fired.last.ok
    /\ fired.hits = {}

\* C30: at most one reconnect window is in flight for a username: whatever the
\* order in which the reader threads, the game loop and the accept loop act,
\* no client id has more than one live countdown_and_remove thread
C30_OneCountdownPerClient == \A c \in Ids : timers[c] <= 1

\* the step in which main takes c back within its reconnect window
Reconnects(c) ==
    /\ reconnects' = reconnects + 1
    /\ Reconnecting(c)
    /\ ~active_games'[c].disconnected

\* C31: a reconnect replaces the socket of the client by the new, open one, clears
\* every disconnected marker of the client and takes it out of
\* disconnected_players, and leaves its input queue, its role, both waiting
\* lists, game_in_progress and the opponent's record as they were
C31_ReconnectSplicesSocket ==
    [][\A c \in Ids :
          Reconnects(c) =>
             /\ clients'[c].socket = "open"
             /\ ~clients'[c].disconnected
             /\ c \notin disconnected_players'
             /\ clients'[c].input_queue = clients[c].input_queue
             /\ clients'[c].has_queue = clients[c].has_queue
             /\ clients'[c].role = clients[c].role
             /\ UNCHANGED << players_waiting, spectators_waiting, game_in_progress >>
             /\ active_games'[active_games[c].opponent] = active_games[active_games[c].opponent]]_vars

\* C32: no thread sends on a client socket while it holds the registry lock:
\* whenever a reader thread has written lines to its client, no "with lock"
\* block of that thread was open around the send
C32_NoSendUnderLock == reader_out.sent # << >> => reader_out.lock_held = 0

\* C34: no player input is lost: a line typed by the player whose input the match
\* awaits is never taken by a reader thread that an earlier timed-out receive left
\* behind; it goes to the receive the state machine is waiting in
C34_AwaitedLineReachesReceive ==
    [][\A p \in Players :
          (pc = "await" /\ p = current_player_tag) => ~StaleEat(p)]_vars

\* the players of the matches that are between promotion and the start of cleanup
PlayersInMatch == {c \in Ids : Playing(c)}

\* C36: a reconnect window (a countdown thread) is opened only for a client that
\* is a player of the match in progress; a former player of a finished match is
\* removed like any waiting client
C36_WindowOnlyForCurrentPlayers ==
    [][\A c \in Ids :
          timers'[c] > timers[c] =>
             \/ game_in_progress /\ c \in PlayersInMatch
             \/ game_in_progress' /\ c \in PlayersInMatch']_vars

\* C37: a promoted pair reaches the placement phase: when run_game_wrapper is
\* past its start countdown the match controller is running for the pair, the
\* wrapper is not yet in its cleanup
C37_PromotedPairReachesPlacement ==
    [][\A g \in DOMAIN games :
          (games[g].pc = "start" /\ games'[g].pc # "start") => games'[g].pc = "match"]_vars

\* the run_game_wrapper threads between promotion and the start of their cleanup
RunningMatches == {g \in DOMAIN games : games[g].pc \in {"start", "match"}}

\* C38: at most one match is running at any time, and game_in_progress is true
\* exactly while a match thread is between promotion and the start of cleanup
C38_OneMatchAndFlagAgree ==
    /\ Cardinality(RunningMatches) <= 1
    /\ game_in_progress <=> RunningMatches # {}

\* clients that are waiting for their first match, with a working connection
FirstTimeWaiting(c) ==
    /\ IndexIn(WaitingQueue, c) > 0
    /\ clients[c].socket = "open"
    /\ \A g \in DOMAIN games : \A i \in 1..2 : games[g].players[i] # c

\* C40: clients are promoted in arrival order: when a waiting client is promoted,
\* every client that was admitted before it and is still waiting for its first
\* match is promoted in the same step
C40_PromotionInArrivalOrder ==
    [][\A c \in NewlyPromoted : \A d \in DOMAIN clients :
          ( /\ FirstTimeWaiting(c) /\ FirstTimeWaiting(d)
            /\ IndexIn(client_ids, d) < IndexIn(client_ids, c) ) => d \in NewlyPromoted]_vars

(***************************************************************************)
(* Outbound messages.  send_message_to_client (server.py 50-66) looks the  *)
(* socket up under the registry lock and calls conn.sendall after the      *)
(* with block; send_msg_to_player and send_board_to_player (battleship.py  *)
(* 186-193, 220-234) write to the wfile of the same socket and flush.      *)
(* sendall and flush hand the bytes to the socket in as many send calls as *)
(* the socket buffer asks for: SendChunks of them here.                    *)
(***************************************************************************)
SendChunks == 2
MaxSends == 1

old_aux_vars == << pkt, clock, reader_out, fired >>

\* lines 53-55 / battleship.py 187: the thread takes the socket of client c
SendBegin(t, c) ==
    /\ sending[t].to = ""
    /\ sending[t].done < MaxSends
    /\ sending' = [sending EXCEPT ![t] = [to |-> c, left |-> SendChunks, done |-> @.done + 1]]
    /\ UNCHANGED << match_vars, server_vars, old_aux_vars, sock_bytes, picked, remaining >>

\* one send call of conn.sendall (line 59) or of wfile.flush: the next chunk of
\* the thread's message goes to the socket; after the last one the call returns
SendChunk(t) ==
    /\ sending[t].to # ""
    /\ LET c == sending[t].to
           k == SendChunks - sending[t].left + 1
       IN  /\ sock_bytes' = [sock_bytes EXCEPT ![c] = Append(@, << t, k >>)]
           /\ sending' = [sending EXCEPT ![t].left = @ - 1,
                                         ![t].to = IF k = SendChunks THEN "" ELSE c]
    /\ UNCHANGED << match_vars, server_vars, old_aux_vars, picked, remaining >>

NextSend ==
    \/ \E t \in Senders : \E c \in SendTargets : SendBegin(t, c)
    \/ \E t \in Senders : SendChunk(t)

SpecSend == InitServer /\ [][NextSend]_vars

\* C33: the sends to one client are serialised: no two threads are writing to
\* the same client's socket at the same time, and the chunks of one message
\* lie together on the socket, in order, with no chunk of another message
\* between them
C33_OneWriterPerSocket ==
    /\ \A t1, t2 \in Senders :
          (t1 # t2 /\ sending[t1].to # "") => sending[t1].to # sending[t2].to
    /\ \A c \in SendTargets : \A i \in DOMAIN sock_bytes[c] :
          sock_bytes[c][i][2] > 1 =>
             sock_bytes[c][i - 1] = << sock_bytes[c][i][1], sock_bytes[c][i][2] - 1 >>

(***************************************************************************)
(* The disconnect handler of the turn loop (battleship.py 534-553) on its  *)
(* own: which player it takes for the disconnected one, from the text of   *)
(* the exception.  Names and texts are sequences of characters.            *)
(***************************************************************************)
\* Python's "sub in s" for strings
Contains(s, sub) ==
    \E i \in 0..(Len(s) - Len(sub)) : SubSeq(s, i + 1, i + Len(sub)) = sub

\* the texts of PlayerDisconnectedException, lines 193 and 204, after the tag
SendErrorText == << " ","d","i","s","c","o","n","n","e","c","t","e","d"," ","(",
                   "s","e","n","d"," ","e","r","r","o","r",")" >>
EOFText == << " ","d","i","s","c","o","n","n","e","c","t","e","d"," ","(",
             "E","O","F"," ","o","n"," ","r","e","a","d",")" >>

\* lines 538-549 with the fallback of the else branch
disconnected_player_of(u1, u2, disconnected_msg_detail, cur) ==
    IF Contains(disconnected_msg_detail, u1) THEN u1
    ELSE IF Contains(disconnected_msg_detail, u2) THEN u2
    ELSE cur

\* usernames are what the client typed, stripped: any non-empty text
NameMenu == { << "a","l","i","c","e" >>, << "b","o","b" >>, << "a","l" >>,
              << "b","o","b","b","y" >>, << "e","d" >>, << "E","O","F" >> }

\* a send to, or a read from, the player "failed" raises; the handler of line 534
\* runs in a match of u1 against u2 in the turn of cur
HandleDisconnect(u1, u2, failed, text, cur) ==
    /\ u1 # u2
    /\ failed \in {u1, u2} /\ cur \in {u1, u2}
    /\ picked' = [username1 |-> u1, username2 |-> u2, failed |-> failed,
                  detail |-> failed \o text, current_player_tag |-> cur,
                  disconnected_player |-> disconnected_player_of(u1, u2, failed \o text, cur)]
    /\ UNCHANGED << match_vars, server_vars, old_aux_vars, sending, sock_bytes, remaining >>

NextBlame ==
    \E u1, u2, failed, cur \in NameMenu : \E text \in {SendErrorText, EOFText} :
        HandleDisconnect(u1, u2, failed, text, cur)

SpecBlame == InitServer /\ [][NextBlame]_vars

\* C35: the player treated as disconnected is the player whose transport
\* failed, for every pair of distinct usernames
C35_BlamedPlayerIsFailedPlayer ==
    picked.failed # << >> => picked.disconnected_player = picked.failed

(***************************************************************************)
(* countdown_and_remove (server.py 705-727) with its local "remaining".    *)
(* Every thread sleeps one second per pass of its loop, so in one second   *)
(* each live countdown thread of a client makes one pass; a thread started *)
(* during that second makes its first pass in the next one.                *)
(***************************************************************************)
RECONNECT_TIMEOUT == 30

\* line 710, negated
Flagged(G, client_id) ==
    /\ client_id \in G.disconnected_players
    /\ client_id \in DOMAIN G.active_games
    /\ G.active_games[client_id].disconnected

\* lines 713-721: the two notices of one pass of the loop
countdown_pass(G, client_id) ==
    LET opponent_id == G.active_games[client_id].opponent
        G1 == send_message_to_client(G, client_id)
    IN  IF opponent_id \in DOMAIN G1.clients
        THEN send_message_to_client(G1, opponent_id) ELSE G1

\* lines 724-727, reached without another look at the flags
countdown_end(G, client_id) ==
    [remove_client(broadcast_to_all(G, ""), client_id) EXCEPT
        !.disconnected_players = @ \ {client_id},
        !.timers[client_id] = @ - 1]

\* one second of a countdown thread of client_id with the given "remaining"
countdown_thread(G, client_id, r) ==
    LET G1 == countdown_pass(G, client_id)
    IN  IF ~Flagged(G, client_id)
        THEN [G EXCEPT !.timers[client_id] = @ - 1]      \* lines 710-712: it returns
        ELSE IF r = 1 THEN countdown_end(G1, client_id)
        ELSE G1

RECURSIVE countdown_and_remove(_, _, _, _)
\* one second of the countdown threads of client_id whose "remaining" values are
\* rs, oldest first: [G, left], left the values of the threads that go on
countdown_and_remove(G, client_id, rs, left) ==
    IF rs = << >> THEN [G |-> G, left |-> left]
    ELSE countdown_and_remove(countdown_thread(G, client_id, Head(rs)), client_id, Tail(rs),
                              IF Flagged(G, client_id) /\ Head(rs) > 1
                              THEN Append(left, Head(rs) - 1) ELSE left)

\* the threads that go on, and behind them the threads started since the last
\* second: n is the number of live threads
WithStarted(left, n) == left \o [i \in 1..(n - Len(left)) |-> RECONNECT_TIMEOUT]

\* one second passes for the countdown threads of c
CountdownSecond(c) ==
    /\ timers[c] > 0
    /\ ServerStep(countdown_and_remove(Globals, c, remaining[c], << >>).G)
    /\ remaining' = [remaining EXCEPT ![c] =
                        WithStarted(countdown_and_remove(Globals, c, remaining[c], << >>).left,
                                    timers'[c])]
    /\ UNCHANGED << main_pc, reconnects, refused, old_aux_vars, sending, sock_bytes, picked >>

CountdownArrivals == << "alice", "bob" >>

NextCountdown ==
    \/ \E c \in Ids : Len(client_ids) < Len(CountdownArrivals)
                        /\ c = CountdownArrivals[Len(client_ids) + 1] /\ MainRegister(c)
    \/ MainWelcome
    \/ ClientDrop("alice")
    \/ \E c \in Ids : MainReconnect(c)
    \/ \E c \in Ids : ReaderExit(c)
    \/ \E c \in Ids : ZombieExit(c)
    \/ \E c \in Ids : CountdownSecond(c)

SpecCountdown == InitServer /\ [][NextCountdown]_vars

\* the step in which a countdown thread of c comes to its end and removes c
RemovedByCountdown(c) ==
    /\ remaining'[c] # remaining[c]
    /\ c \in disconnected_players
    /\ c \notin disconnected_players'

\* C39: a countdown removes a client only when RECONNECT_TIMEOUT seconds have
\* passed since the client's most recent disconnect: at that step every countdown
\* thread of the client, the one started by the most recent disconnect included,
\* is in its last second
C39_RemovalOnlyAfterLatestWindow ==
    [][\A c \in Ids :
          RemovedByCountdown(c) =>
             /\ Len(remaining[c]) = timers[c]
             /\ \A i \in DOMAIN remaining[c] : remaining[c][i] <= 1]_vars
====
